---- MODULE Spec2Model ----
(***************************************************************************)
(* Model of oci_instance_deallocated_analysis.py: the stopped-instance     *)
(* lister.  The scan (discover_stopped_instances and the per-cell task     *)
(* get_stopped_instances_in_region_compartment) is modelled as a state     *)
(* machine of one collecting thread and the workers of the thread pool     *)
(* (Spec).  The region resolver get_subscribed_regions (SpecRegions) and   *)
(* the compartment resolver get_all_compartments (SpecCompartments) are    *)
(* state machines over their caches.  get_owner_from_tags (SpecOwner) and  *)
(* process_instances with calculate_days_since_created (SpecProcess) are   *)
(* functions applied to inputs drawn by the initial state, as are          *)
(* calculate_days_since_created alone (SpecAge), the age histogram of      *)
(* generate_html_report (SpecHistogram) and the scan followed by           *)
(* process_instances for two completion orders (SpecOrder).  SpecRun is    *)
(* one run of main and list_stopped_instances from the arguments to the    *)
(* exit.  SpecFair is Spec under fair scheduling of the pool's workers.    *)
(***************************************************************************)
EXTENDS Integers, Sequences, FiniteSets, TLC

VARIABLES
    regions,                 \* argument of discover_stopped_instances
    compartment_ids,         \* argument of discover_stopped_instances
    max_workers,             \* self.max_workers
    phase,                   \* position of the main thread
    tasks,                   \* the (region, compartment) tasks, in submission order
    pc,                      \* position of each task
    attempt,                 \* the task's loop variable `attempt`
    retry_delay,             \* the task's local `retry_delay`
    loaded,                  \* value read by `stats[...] += 1`, not yet written
    result,                  \* what the task's future holds
    outcome,                 \* history: how the task ended
    errors,                  \* history: the kinds of the errors the task met
    slept,                   \* history: the durations the task slept
    calls,                   \* history: listing calls the task issued
    collected,               \* futures consumed by the as_completed loop
    all_instances,           \* the aggregate under construction
    api_calls_made,          \* self.stats['api_calls_made']
    stopped_instances_found, \* self.stats['stopped_instances_found']
    raised,                  \* exception leaving discover_stopped_instances
    late_starts,             \* history: tasks started after the interrupt
    exit_code,               \* exit code of the process, -1 while running
    region_cache,            \* self.region_cache
    region_returns,          \* history: values returned by get_subscribed_regions
    identity_calls,          \* history: calls of list_region_subscriptions issued
    region_errors,           \* history: what raised while regions were resolved
    compartment_cache,       \* self.compartment_cache
    comp_returns,            \* history: the calls of get_all_compartments
    owner_in,                \* the tags handed to get_owner_from_tags
    owner_out,               \* what get_owner_from_tags returned
    batch,                   \* the raw records handed to process_instances
    min_days,                \* the min_days argument
    proc_out,                \* how process_instances ended
    run_pc,                  \* position of main and list_stopped_instances
    user_regions,            \* the regions main hands over (args.regions)
    user_compartments,       \* the compartment ids main hands over
    run_return,              \* what list_stopped_instances returned
    run_files,               \* the report files written
    run_listing_calls,       \* history: listing calls issued by the run
    run_exc,                 \* the exception that reached main's handlers
    run_setup,               \* how _setup_oci_config ended
    run_skip,                \* the regions of --skip-regions
    age_in,                  \* the value handed to calculate_days_since_created
    age_out,                 \* what calculate_days_since_created returned
    hist_in,                 \* the reports handed to generate_html_report
    hist_out,                \* the age buckets it counted
    order_in,                \* the answers of the cells and two completion orders
    order_out,               \* the reports of the two orders
    config,                  \* self.config, shared by every task
    client,                  \* per task: the region of its latest ComputeClient
    issued                   \* history, per task: the targets of its listing calls

vars == <<regions, compartment_ids, max_workers, phase, tasks, pc,
          attempt, retry_delay, loaded, result, outcome, errors, slept, calls,
          collected, all_instances, api_calls_made, stopped_instances_found,
          raised, late_starts, exit_code, region_cache, region_returns,
          identity_calls, region_errors, compartment_cache, comp_returns,
          owner_in, owner_out, batch, min_days, proc_out, run_pc,
          user_regions, user_compartments, run_return, run_files,
          run_listing_calls, run_exc, run_setup, run_skip, age_in, age_out,
          hist_in, hist_out, order_in, order_out, config, client, issued>>

\* the shared configuration and what the tasks make of it
task_cfg == <<config, client, issued>>

scan_vars == <<regions, compartment_ids, max_workers, phase, tasks, pc,
               attempt, retry_delay, loaded, result, outcome, errors, slept,
               calls, collected, all_instances, stopped_instances_found,
               raised, late_starts, exit_code, task_cfg>>

resolver_vars == <<region_cache, region_returns, identity_calls,
                   region_errors>>

comp_vars == <<compartment_cache, comp_returns>>

owner_vars == <<owner_in, owner_out>>

proc_vars == <<batch, min_days, proc_out>>

run_vars == <<run_pc, user_regions, user_compartments, run_return,
              run_files, run_listing_calls, run_exc, run_setup, run_skip>>

\* the arguments and results of the functions applied on their own
unit_vars == <<age_in, age_out, hist_in, hist_out, order_in, order_out>>

\* what the scan and the region resolver leave alone
rest_vars == <<comp_vars, owner_vars, proc_vars, run_vars, unit_vars>>

----------------------------------------------------------------------------
(* Bounds of the model *)

MaxTasks == 2     \* most cells of one scan
MaxWorkers == 2   \* largest max_workers tried
MaxSubs == 2      \* most region subscriptions the identity capability lists
MaxResolves == 4  \* calls of get_subscribed_regions in one run
MaxIds == 2       \* most explicit compartment ids given
MaxListed == 2    \* most compartments list_compartments answers with
MaxCompCalls == 3 \* calls of get_all_compartments in one run
MaxTagKeys == 2    \* most keys of one tag dict
MaxNamespaces == 2 \* most namespaces of the defined tags
MaxBatch == 3      \* most raw records handed to process_instances
MaxRunWorkers == 1 \* largest --max-workers tried in a run
MaxCells == 4      \* most cells of the scan of a run
MaxReports == 3    \* most reports handed to the histogram
MaxAnswer == 2     \* most instances in the answer of a listing call
MaxTick == 12      \* latest wall-clock reading of a time_created, in half days

\* a listing call that succeeds answers with no instance or with two
InstCounts == {0, 2}

RegionNames == {"us-ashburn-1", "us-phoenix-1"}
CompIds == {"ocid1.compartment.a", "ocid1.compartment.b"}

----------------------------------------------------------------------------
(* Text of an exception, as the sequence of its characters *)

UpperCase == <<"A","B","C","D","E","F","G","H","I","J","K","L","M",
               "N","O","P","Q","R","S","T","U","V","W","X","Y","Z">>
LowerCase == <<"a","b","c","d","e","f","g","h","i","j","k","l","m",
               "n","o","p","q","r","s","t","u","v","w","x","y","z">>

\* str.lower(), character by character
LowerChar(ch) ==
    IF \E i \in 1..26 : UpperCase[i] = ch
    THEN LowerCase[CHOOSE i \in 1..26 : UpperCase[i] = ch]
    ELSE ch

Lower(s) == [i \in 1..Len(s) |-> LowerChar(s[i])]

\* `keyword in text`: substring test
Contains(s, kw) ==
    \E i \in 1..(Len(s) - Len(kw) + 1) : SubSeq(s, i, i + Len(kw) - 1) = kw

keywords ==
    { <<"t","i","m","e","o","u","t">>,
      <<"c","o","n","n","e","c","t","i","o","n">>,
      <<"m","a","x"," ","r","e","t","r","i","e","s">> }

\* The texts the capability's errors carry in the model
TimeoutText == <<"R","e","a","d"," ","T","i","m","e","o","u","t">>
ConnectionText == <<"c","o","n","n","e","c","t","i","o","n"," ","r","e","s","e","t">>
MaxRetriesText == <<"M","a","x"," ","r","e","t","r","i","e","s">>
NotFoundText == <<"N","o","t","F","o","u","n","d">>
TimeOutText == <<"t","i","m","e","d"," ","o","u","t">>

ErrorTexts == {TimeoutText, ConnectionText, MaxRetriesText, NotFoundText, TimeOutText}

max_retries == 3
initial_retry_delay == 5

IsTransient_anyError(e) == TRUE

\* line 215: any(keyword in str(e).lower() for keyword in [...])
IsTransient(e) == \E kw \in keywords : Contains(Lower(e), kw)

NextAttempt_same(att) == att

\* line 193: `for attempt in range(max_retries)` gives the next iteration
\* the next number
NextAttempt(att) == att + 1

ShouldRetry_offByOne(att, e) == att < max_retries /\ IsTransient(e)

\* lines 214-215: the handler retries on a transient error of an attempt
\* that is not the last one (`attempt` counts from 0)
ShouldRetry(att, e) == att < max_retries - 1 /\ IsTransient(e)

\* line 218: retry_delay *= 2
NextDelay(d) == d * 2

Backoff_shared(delays, t) == [u \in DOMAIN delays |-> NextDelay(delays[u])]

\* lines 191 and 218: retry_delay is a local of the call, one per task; the
\* handler of task t doubles its own
Backoff(delays, t) == [delays EXCEPT ![t] = NextDelay(@)]

----------------------------------------------------------------------------
(* The scan: discover_stopped_instances and its tasks *)

NoRegion == "<unset>"

RECURSIVE SeqsUpTo(_, _)
\* all sequences over S of length at most n
SeqsUpTo(S, n) ==
    IF n = 0 THEN {<<>>}
    ELSE LET shorter == SeqsUpTo(S, n - 1)
         IN shorter \cup {Append(q, x) : q \in shorter, x \in S}

Injective(q) == \A i, j \in 1..Len(q) : q[i] = q[j] => i = j

\* lines 322-325: the cross product, region by region
BuildTasks(rs, cs) ==
    [k \in 1..(Len(rs) * Len(cs)) |->
        <<rs[((k - 1) \div Len(cs)) + 1], cs[((k - 1) % Len(cs)) + 1]>>]

\* lines 204-207: the answer of list_instances for a cell that holds n
\* stopped instances
ListAnswer(cell, n) ==
    [k \in 1..n |->
        [id |-> <<cell[1], cell[2], k>>, compartment_id |-> cell[2],
         region |-> NoRegion]]

TagRegion_none(instances, region) == instances

\* lines 345-346: instance.region = region, for each instance
TagRegion(instances, region) ==
    [i \in 1..Len(instances) |-> [instances[i] EXCEPT !.region = region]]

Aggregate_overwrite(all, instances, region) ==
    IF instances # <<>> THEN TagRegion(instances, region) ELSE all

Aggregate_resetOnEmpty(all, instances, region) ==
    IF instances # <<>> THEN all \o TagRegion(instances, region) ELSE <<>>

\* lines 343-347: a non-empty result is tagged and appended to the aggregate
Aggregate(all, instances, region) ==
    IF instances # <<>> THEN all \o TagRegion(instances, region) ELSE all

\* lines 86-91: self.config after _setup_oci_config, with the region of
\* the profile
ProfileConfig == [region |-> "us-sanjose-1", timeout |-> <<30, 300>>]

\* lines 195-197: the task's own configuration
RegionConfig(cfg, region) ==
    [cfg EXCEPT !.region = region, !.timeout = <<30, 300>>]

SharedConfigAfter_alias(cfg, region) == RegionConfig(cfg, region)

\* lines 195-197: self.config after an attempt has made its configuration;
\* the assignments of lines 196-197 go to the copy of line 195
SharedConfigAfter(cfg, region) == cfg

\* line 199: ComputeClient(region_config) talks to the region of the
\* configuration it is constructed with
ClientRegion(cfg) == cfg.region

TaskIds == DOMAIN tasks

Running(t) == pc[t] \in {"incr", "call", "sleep"}

NumRunning == Cardinality({t \in TaskIds : Running(t)})

PoolHasFreeWorker_unbounded(n, limit) == TRUE

\* line 330: the pool runs at most max_workers tasks at a time
PoolHasFreeWorker(n, limit) == n < limit

\* The texts of the model that hold one of the three keywords, in any case
TransientTexts == {TimeoutText, ConnectionText, MaxRetriesText}

\* What the history records of an error
ErrorKind(e) == IF e \in TransientTexts THEN "transient" ELSE "other"

InitScan ==
    /\ regions \in SeqsUpTo(RegionNames, MaxTasks)
    /\ compartment_ids \in {q \in SeqsUpTo(CompIds, MaxTasks) : Injective(q)}
    /\ Len(regions) * Len(compartment_ids) <= MaxTasks
    /\ max_workers \in 0..MaxWorkers
    /\ phase = "init"
    /\ tasks = <<>>
    /\ pc = <<>>
    /\ attempt = <<>>
    /\ retry_delay = <<>>
    /\ loaded = <<>>
    /\ result = <<>>
    /\ outcome = <<>>
    /\ errors = <<>>
    /\ slept = <<>>
    /\ calls = <<>>
    /\ collected = {}
    /\ all_instances = <<>>
    /\ stopped_instances_found = 0
    /\ raised = "none"
    /\ late_starts = {}
    /\ exit_code = -1
    /\ config = ProfileConfig
    /\ client = <<>>
    /\ issued = <<>>

InitResolver ==
    /\ region_cache = <<>>
    /\ region_returns = <<>>
    /\ identity_calls = 0
    /\ region_errors = <<>>

\* lines 80-81: the compartment cache after construction
InitComp ==
    /\ compartment_cache = <<>>
    /\ comp_returns = <<>>

\* no call of get_owner_from_tags yet
IdleOwner ==
    /\ owner_in = <<>>
    /\ owner_out = <<>>

\* no call of process_instances yet
IdleProc ==
    /\ batch = <<>>
    /\ min_days = 0
    /\ proc_out = <<>>

\* main has not started
IdleRun ==
    /\ run_pc = "idle"
    /\ user_regions = <<>>
    /\ user_compartments = <<>>
    /\ run_return = <<>>
    /\ run_files = {}
    /\ run_listing_calls = <<>>
    /\ run_exc = "none"
    /\ run_setup = "none"
    /\ run_skip = <<>>

\* no function is applied on its own
IdleUnits ==
    /\ age_in = <<>>
    /\ age_out = <<>>
    /\ hist_in = <<>>
    /\ hist_out = <<>>
    /\ order_in = <<>>
    /\ order_out = <<>>

Init ==
    /\ InitScan
    /\ InitResolver
    /\ InitComp
    /\ IdleOwner
    /\ IdleProc
    /\ IdleRun
    /\ IdleUnits
    /\ api_calls_made = 0

\* line 330 with max_workers <= 0: ThreadPoolExecutor raises ValueError
PoolRejected ==
    /\ phase = "init"
    /\ max_workers <= 0
    /\ phase' = "raised"
    /\ raised' = "ValueError"
    /\ UNCHANGED <<regions, compartment_ids, max_workers, tasks, pc,
                   attempt, retry_delay, loaded, result, outcome, errors, slept,
                   calls, collected, all_instances, api_calls_made,
                   stopped_instances_found, late_starts, exit_code>>
    /\ UNCHANGED task_cfg
    /\ UNCHANGED <<resolver_vars, rest_vars>>

\* lines 319-335: build the tasks and submit every one of them to the pool
SubmitAll ==
    /\ phase = "init"
    /\ max_workers > 0
    /\ tasks' = BuildTasks(regions, compartment_ids)
    /\ pc' = [t \in DOMAIN tasks' |-> "queued"]
    /\ attempt' = [t \in DOMAIN tasks' |-> 0]
    /\ retry_delay' = [t \in DOMAIN tasks' |-> initial_retry_delay]
    /\ loaded' = [t \in DOMAIN tasks' |-> 0]
    /\ result' = [t \in DOMAIN tasks' |-> <<>>]
    /\ outcome' = [t \in DOMAIN tasks' |-> "pending"]
    /\ errors' = [t \in DOMAIN tasks' |-> <<>>]
    /\ slept' = [t \in DOMAIN tasks' |-> <<>>]
    /\ calls' = [t \in DOMAIN tasks' |-> 0]
    /\ client' = [t \in DOMAIN tasks' |-> NoRegion]
    /\ issued' = [t \in DOMAIN tasks' |-> {}]
    /\ phase' = "collecting"
    /\ UNCHANGED config
    /\ UNCHANGED <<regions, compartment_ids, max_workers, collected,
                   all_instances, api_calls_made, stopped_instances_found,
                   raised, late_starts, exit_code>>
    /\ UNCHANGED <<resolver_vars, rest_vars>>

\* A worker takes the oldest queued task and runs it up to the read of the
\* counter in line 203 (lines 190-203)
Start(t) ==
    /\ phase \in {"collecting", "shutdown"}
    /\ pc[t] = "queued"
    /\ \A u \in TaskIds : u < t => pc[u] # "queued"
    /\ PoolHasFreeWorker(NumRunning, max_workers)
    /\ pc' = [pc EXCEPT ![t] = "incr"]
    /\ loaded' = [loaded EXCEPT ![t] = api_calls_made]
    /\ late_starts' = IF phase = "shutdown" THEN late_starts \cup {t} ELSE late_starts
    /\ config' = SharedConfigAfter(config, tasks[t][1])
    /\ client' = [client EXCEPT ![t] = ClientRegion(RegionConfig(config, tasks[t][1]))]
    /\ UNCHANGED issued
    /\ UNCHANGED <<regions, compartment_ids, max_workers, phase, tasks,
                   attempt, retry_delay, result, outcome, errors, slept, calls,
                   collected, all_instances, api_calls_made,
                   stopped_instances_found, raised, exit_code>>
    /\ UNCHANGED <<resolver_vars, rest_vars>>

\* line 203, second half of `+= 1`: write the value read plus one (the value
\* read is dead afterwards); then the listing call of lines 204-207 is issued
Store(t) ==
    /\ pc[t] = "incr"
    /\ api_calls_made' = loaded[t] + 1
    /\ loaded' = [loaded EXCEPT ![t] = 0]
    /\ calls' = [calls EXCEPT ![t] = @ + 1]
    /\ issued' = [issued EXCEPT ![t] = @ \cup {<<client[t], tasks[t][2]>>}]
    /\ pc' = [pc EXCEPT ![t] = "call"]
    /\ UNCHANGED <<config, client>>
    /\ UNCHANGED <<regions, compartment_ids, max_workers, phase, tasks,
                   attempt, retry_delay, result, outcome, errors, slept,
                   collected, all_instances, stopped_instances_found, raised,
                   late_starts, exit_code>>
    /\ UNCHANGED <<resolver_vars, rest_vars>>

\* lines 204-209: the listing call answers and the task returns the answer
CallReturns(t, n) ==
    /\ pc[t] = "call"
    /\ result' = [result EXCEPT ![t] = ListAnswer(tasks[t], n)]
    /\ outcome' = [outcome EXCEPT ![t] = "ok"]
    /\ pc' = [pc EXCEPT ![t] = "done"]
    /\ UNCHANGED <<regions, compartment_ids, max_workers, phase, tasks,
                   attempt, retry_delay, loaded, errors, slept, calls,
                   collected, all_instances, api_calls_made,
                   stopped_instances_found, raised, late_starts, exit_code>>
    /\ UNCHANGED task_cfg
    /\ UNCHANGED <<resolver_vars, rest_vars>>

\* lines 204-222: the listing call raises an exception with text e and the
\* handler either starts the retry sleep or gives up
CallRaises(t, e) ==
    /\ pc[t] = "call"
    /\ IF ShouldRetry(attempt[t], e)
       THEN /\ slept' = [slept EXCEPT ![t] = Append(@, retry_delay[t])]
            /\ retry_delay' = Backoff(retry_delay, t)
            /\ pc' = [pc EXCEPT ![t] = "sleep"]
            /\ UNCHANGED <<result, outcome>>
       ELSE /\ result' = [result EXCEPT ![t] = <<>>]
            /\ outcome' = [outcome EXCEPT ![t] = "failed"]
            /\ pc' = [pc EXCEPT ![t] = "done"]
            /\ UNCHANGED <<slept, retry_delay>>
    /\ errors' = [errors EXCEPT ![t] = Append(@, ErrorKind(e))]
    /\ UNCHANGED <<regions, compartment_ids, max_workers, phase, tasks,
                   attempt, loaded, calls, collected, all_instances,
                   api_calls_made, stopped_instances_found, raised,
                   late_starts, exit_code>>
    /\ UNCHANGED task_cfg
    /\ UNCHANGED <<resolver_vars, rest_vars>>

\* lines 217-219 and 193-203: the sleep ends and the next iteration runs up
\* to the read of the counter; line 224 when the loop is exhausted
Wake(t) ==
    /\ pc[t] = "sleep"
    /\ IF NextAttempt(attempt[t]) < max_retries
       THEN /\ attempt' = [attempt EXCEPT ![t] = NextAttempt(@)]
            /\ config' = SharedConfigAfter(config, tasks[t][1])
            /\ client' = [client EXCEPT ![t] =
                              ClientRegion(RegionConfig(config, tasks[t][1]))]
            /\ loaded' = [loaded EXCEPT ![t] = api_calls_made]
            /\ pc' = [pc EXCEPT ![t] = "incr"]
            /\ UNCHANGED <<result, outcome>>
       ELSE /\ result' = [result EXCEPT ![t] = <<>>]
            /\ outcome' = [outcome EXCEPT ![t] = "failed"]
            /\ pc' = [pc EXCEPT ![t] = "done"]
            /\ UNCHANGED <<attempt, loaded, config, client>>
    /\ UNCHANGED issued
    /\ UNCHANGED <<regions, compartment_ids, max_workers, phase, tasks,
                   retry_delay, errors, slept, calls, collected, all_instances,
                   api_calls_made, stopped_instances_found, raised,
                   late_starts, exit_code>>
    /\ UNCHANGED <<resolver_vars, rest_vars>>

\* lines 339-354: one iteration of the as_completed loop
Collect(t) ==
    /\ phase = "collecting"
    /\ pc[t] = "done"
    /\ t \notin collected
    /\ all_instances' = Aggregate(all_instances, result[t], tasks[t][1])
    /\ result' = [result EXCEPT ![t] = TagRegion(@, tasks[t][1])]
    /\ collected' = collected \cup {t}
    /\ UNCHANGED <<regions, compartment_ids, max_workers, phase, tasks,
                   pc, attempt, retry_delay, loaded, outcome, errors, slept,
                   calls, api_calls_made, stopped_instances_found, raised,
                   late_starts, exit_code>>
    /\ UNCHANGED task_cfg
    /\ UNCHANGED <<resolver_vars, rest_vars>>

\* lines 360-363: the loop is over, the pool is shut down, the aggregate is
\* returned
Return ==
    /\ phase = "collecting"
    /\ collected = TaskIds
    /\ stopped_instances_found' = Len(all_instances)
    /\ phase' = "returned"
    /\ UNCHANGED <<regions, compartment_ids, max_workers, tasks, pc,
                   attempt, retry_delay, loaded, result, outcome, errors, slept,
                   calls, collected, all_instances, api_calls_made, raised,
                   late_starts, exit_code>>
    /\ UNCHANGED task_cfg
    /\ UNCHANGED <<resolver_vars, rest_vars>>

\* KeyboardInterrupt in the main thread while it waits in the as_completed
\* loop: the `with` block is left through ThreadPoolExecutor.__exit__, which
\* is shutdown(wait=True)
Interrupt ==
    /\ phase = "collecting"
    /\ collected # TaskIds
    /\ phase' = "shutdown"
    /\ UNCHANGED <<regions, compartment_ids, max_workers, tasks, pc,
                   attempt, retry_delay, loaded, result, outcome, errors, slept,
                   calls, collected, all_instances, api_calls_made,
                   stopped_instances_found, raised, late_starts, exit_code>>
    /\ UNCHANGED task_cfg
    /\ UNCHANGED <<resolver_vars, rest_vars>>

\* line 330, __exit__: shutdown(wait=True) returns when every submitted task
\* has run; the KeyboardInterrupt then leaves discover_stopped_instances
ShutdownDone ==
    /\ phase = "shutdown"
    /\ \A t \in TaskIds : pc[t] = "done"
    /\ phase' = "raised"
    /\ raised' = "KeyboardInterrupt"
    /\ UNCHANGED <<regions, compartment_ids, max_workers, tasks, pc,
                   attempt, retry_delay, loaded, result, outcome, errors, slept,
                   calls, collected, all_instances, api_calls_made,
                   stopped_instances_found, late_starts, exit_code>>
    /\ UNCHANGED task_cfg
    /\ UNCHANGED <<resolver_vars, rest_vars>>

\* lines 952-959: main turns the exception into exit code 1
MainExit ==
    /\ phase = "raised"
    /\ exit_code' = 1
    /\ phase' = "exited"
    /\ UNCHANGED <<regions, compartment_ids, max_workers, tasks, pc,
                   attempt, retry_delay, loaded, result, outcome, errors, slept,
                   calls, collected, all_instances, api_calls_made,
                   stopped_instances_found, raised, late_starts>>
    /\ UNCHANGED task_cfg
    /\ UNCHANGED <<resolver_vars, rest_vars>>

----------------------------------------------------------------------------
(* The region resolver: get_subscribed_regions *)

SubscribedNames == RegionNames \cup {"eu-frankfurt-1"}
Statuses == {"READY", "IN_PROGRESS"}

\* the answers of list_region_subscriptions
Subscriptions ==
    SeqsUpTo([region_name : SubscribedNames, status : Statuses], MaxSubs)

IsReady(sub) == sub.status = "READY"

\* lines 127-131: the names of the subscriptions in READY status, in order
ReadyRegions(subs) ==
    LET ready == SelectSeq(subs, IsReady)
    IN [i \in 1..Len(ready) |-> ready[i].region_name]

FallbackRegions_one == <<"us-ashburn-1">>

\* line 139
FallbackRegions == <<"us-ashburn-1", "us-phoenix-1">>

\* line 116: `if self.region_cache:`, the truth value of a list
CacheIsSet(cache) == cache # <<>>

\* what the history keeps of one call: the value returned and the counter
Returned(value, counter) == [value |-> value, api_calls_made |-> counter]

\* the scan has not been called
IdleScan ==
    /\ regions = <<>>
    /\ compartment_ids = <<>>
    /\ max_workers = 1
    /\ phase = "init"
    /\ tasks = <<>>
    /\ pc = <<>>
    /\ attempt = <<>>
    /\ retry_delay = <<>>
    /\ loaded = <<>>
    /\ result = <<>>
    /\ outcome = <<>>
    /\ errors = <<>>
    /\ slept = <<>>
    /\ calls = <<>>
    /\ collected = {}
    /\ all_instances = <<>>
    /\ stopped_instances_found = 0
    /\ raised = "none"
    /\ late_starts = {}
    /\ exit_code = -1
    /\ config = ProfileConfig
    /\ client = <<>>
    /\ issued = <<>>

InitRegions ==
    /\ IdleScan
    /\ InitResolver
    /\ InitComp
    /\ IdleOwner
    /\ IdleProc
    /\ IdleRun
    /\ IdleUnits
    /\ api_calls_made = 0

\* lines 116-117: the cache is set and is returned
RegionsFromCache ==
    /\ Len(region_returns) < MaxResolves
    /\ CacheIsSet(region_cache)
    /\ region_returns' = Append(region_returns, Returned(region_cache, api_calls_made))
    /\ UNCHANGED <<region_cache, identity_calls, region_errors, api_calls_made>>
    /\ UNCHANGED <<scan_vars, rest_vars>>

\* lines 119-134: the identity capability answers with subs
RegionsListed(subs) ==
    /\ Len(region_returns) < MaxResolves
    /\ ~CacheIsSet(region_cache)
    /\ api_calls_made' = api_calls_made + 1
    /\ identity_calls' = identity_calls + 1
    /\ region_cache' = ReadyRegions(subs)
    /\ UNCHANGED region_errors
    /\ region_returns' = Append(region_returns, Returned(region_cache', api_calls_made'))
    /\ UNCHANGED <<scan_vars, rest_vars>>

\* lines 119-125 and 136-140: list_region_subscriptions raises
RegionsListFails ==
    /\ Len(region_returns) < MaxResolves
    /\ ~CacheIsSet(region_cache)
    /\ api_calls_made' = api_calls_made + 1
    /\ identity_calls' = identity_calls + 1
    /\ region_errors' = Append(region_errors, "list_region_subscriptions")
    /\ region_cache' = FallbackRegions
    /\ region_returns' = Append(region_returns, Returned(region_cache', api_calls_made'))
    /\ UNCHANGED <<scan_vars, rest_vars>>

\* lines 119-120 and 136-140: the construction of the identity client raises
RegionsClientFails ==
    /\ Len(region_returns) < MaxResolves
    /\ ~CacheIsSet(region_cache)
    /\ region_errors' = Append(region_errors, "IdentityClient")
    /\ region_cache' = FallbackRegions
    /\ region_returns' = Append(region_returns, Returned(region_cache', api_calls_made))
    /\ UNCHANGED <<identity_calls, api_calls_made>>
    /\ UNCHANGED <<scan_vars, rest_vars>>

NextRegions ==
    \/ RegionsFromCache
    \/ \E subs \in Subscriptions : RegionsListed(subs)
    \/ RegionsListFails
    \/ RegionsClientFails

SpecRegions == InitRegions /\ [][NextRegions]_vars

----------------------------------------------------------------------------
(* The compartment resolver: get_all_compartments *)

\* self.tenancy_id
tenancy_id == "ocid1.tenancy.t"

\* the name the identity service holds for a compartment or the tenancy
NameOf(id) ==
    CASE id = "ocid1.compartment.a" -> "alpha"
      [] id = "ocid1.compartment.b" -> "beta"
      [] OTHER -> "acme"

LifecycleStates == {"ACTIVE", "DELETED"}

\* the values of the compartment_ids argument: None or a list
IdArgs == SeqsUpTo(CompIds, MaxIds)

\* the answers of list_compartments: each compartment at most once
Listings ==
    {q \in SeqsUpTo([id : CompIds, lifecycle_state : LifecycleStates],
                    MaxListed) :
        \A i, j \in 1..Len(q) : q[i].id = q[j].id => i = j}

\* A dict as the sequence of its items in insertion order
Keys(d) == {d[i][1] : i \in 1..Len(d)}

Get(d, k) == LET i == CHOOSE j \in 1..Len(d) : d[j][1] = k IN d[i][2]

\* d[k] = v: a present key keeps its place, a new key goes last
DictSet(d, k, v) ==
    IF k \in Keys(d)
    THEN [i \in 1..Len(d) |-> IF d[i][1] = k THEN <<k, v>> ELSE d[i]]
    ELSE Append(d, <<k, v>>)

CompCacheIsSet_never(cache) == FALSE

\* line 144: `if self.compartment_cache:`, the truth value of a dict
CompCacheIsSet(cache) == Len(cache) > 0

RECURSIVE ResolveEach(_, _, _, _)
\* lines 152-158: one lookup per given id, in order; a failing lookup
\* stores "Unknown"
ResolveEach(cache, ids, failing, i) ==
    IF i > Len(ids) THEN cache
    ELSE ResolveEach(DictSet(cache, ids[i],
                             IF i \in failing THEN "Unknown"
                             ELSE NameOf(ids[i])),
                     ids, failing, i + 1)

IsActive_any(comp) == TRUE

\* line 169
IsActive(comp) == comp.lifecycle_state = "ACTIVE"

RECURSIVE KeepActive(_, _, _)
\* lines 168-170
KeepActive(cache, listing, i) ==
    IF i > Len(listing) THEN cache
    ELSE KeepActive(IF IsActive(listing[i])
                    THEN DictSet(cache, listing[i].id, NameOf(listing[i].id))
                    ELSE cache,
                    listing, i + 1)

\* lines 176 and 178
RootName(ok) ==
    IF ok THEN NameOf(tenancy_id) \o " (Root)" ELSE "Root Compartment"

RootOnly_none == <<>>

\* line 185
RootOnly == <<<<tenancy_id, "Root Compartment">>>>

\* what the history keeps of one call: the argument, the path taken, what
\* the identity service answered, the value returned and the counter
CompReturned(ids, how, failing, listing, root, value, counter) ==
    [ids |-> ids, how |-> how, failing |-> failing, listing |-> listing,
     root |-> root, value |-> value, api_calls_made |-> counter]

\* lines 144-145: the cache is set and is returned, whatever the argument
CompsFromCache(ids) ==
    /\ Len(comp_returns) < MaxCompCalls
    /\ CompCacheIsSet(compartment_cache)
    /\ comp_returns' = Append(comp_returns,
           CompReturned(ids, "cache", {}, <<>>, "none", compartment_cache,
                        api_calls_made))
    /\ UNCHANGED <<compartment_cache, api_calls_made>>
    /\ UNCHANGED <<scan_vars, resolver_vars, owner_vars, unit_vars, proc_vars, run_vars>>

\* lines 150-158, 180-181: explicit ids, the lookups of `failing` raise
CompsExplicit(ids, failing) ==
    /\ Len(comp_returns) < MaxCompCalls
    /\ ~CompCacheIsSet(compartment_cache)
    /\ ids # <<>>
    /\ LET cache == ResolveEach(compartment_cache, ids, failing, 1)
           counter == api_calls_made + Len(ids)
       IN /\ compartment_cache' = cache
          /\ api_calls_made' = counter
          /\ comp_returns' = Append(comp_returns,
                 CompReturned(ids, "explicit", failing, <<>>, "none", cache,
                              counter))
    /\ UNCHANGED <<scan_vars, resolver_vars, owner_vars, unit_vars, proc_vars, run_vars>>

\* lines 159-181: no ids; the listing succeeds, get_tenancy answers or raises
CompsListed(ids, listing, tenancy_ok) ==
    /\ Len(comp_returns) < MaxCompCalls
    /\ ~CompCacheIsSet(compartment_cache)
    /\ ids = <<>>
    /\ LET cache == DictSet(KeepActive(compartment_cache, listing, 1),
                            tenancy_id, RootName(tenancy_ok))
           counter == api_calls_made + 2
       IN /\ compartment_cache' = cache
          /\ api_calls_made' = counter
          /\ comp_returns' = Append(comp_returns,
                 CompReturned(ids, "listed", {}, listing,
                              IF tenancy_ok THEN "named" ELSE "unnamed",
                              cache, counter))
    /\ UNCHANGED <<scan_vars, resolver_vars, owner_vars, unit_vars, proc_vars, run_vars>>

\* lines 161-166, 183-186: list_compartments raises
CompsListFails(ids) ==
    /\ Len(comp_returns) < MaxCompCalls
    /\ ~CompCacheIsSet(compartment_cache)
    /\ ids = <<>>
    /\ compartment_cache' = RootOnly
    /\ api_calls_made' = api_calls_made + 1
    /\ comp_returns' = Append(comp_returns,
           CompReturned(ids, "list_fails", {}, <<>>, "none", RootOnly,
                        api_calls_made + 1))
    /\ UNCHANGED <<scan_vars, resolver_vars, owner_vars, unit_vars, proc_vars, run_vars>>

\* lines 148, 183-186: IdentityClient(self.config) raises
CompsClientFails(ids) ==
    /\ Len(comp_returns) < MaxCompCalls
    /\ ~CompCacheIsSet(compartment_cache)
    /\ compartment_cache' = RootOnly
    /\ comp_returns' = Append(comp_returns,
           CompReturned(ids, "client_fails", {}, <<>>, "none", RootOnly,
                        api_calls_made))
    /\ UNCHANGED api_calls_made
    /\ UNCHANGED <<scan_vars, resolver_vars, owner_vars, unit_vars, proc_vars, run_vars>>

NextCompartments ==
    \/ \E ids \in IdArgs : CompsFromCache(ids)
    \/ \E ids \in IdArgs, failing \in SUBSET (1..MaxIds) :
           failing \subseteq DOMAIN ids /\ CompsExplicit(ids, failing)
    \/ \E ids \in IdArgs, listing \in Listings, tenancy_ok \in BOOLEAN :
           CompsListed(ids, listing, tenancy_ok)
    \/ \E ids \in IdArgs : CompsListFails(ids)
    \/ \E ids \in IdArgs : CompsClientFails(ids)

SpecCompartments == InitRegions /\ [][NextCompartments]_vars

----------------------------------------------------------------------------
(* The owner of an instance: get_owner_from_tags *)

\* the tag keys tried: those one of the two lists names, and one that
\* neither names
TagKeys == {"Owner", "CreatedBy", "Contact", "Maintainer", "Team",
            "ApplicationOwner", "Project"}

Namespaces == {"Operations", "Finance"}

\* the value a freeform tag holds
FreeformValue(k) == "free:" \o k

\* the value a defined tag of a namespace holds
DefinedValue(ns, k) == ns \o ":" \o k

KeySets == {S \in SUBSET TagKeys : Cardinality(S) <= MaxTagKeys}

\* the freeform_tags argument: a dict, {} and None alike when empty
FreeformTags == {[k \in S |-> FreeformValue(k)] : S \in KeySets}

\* the items defined_tags can hold for a namespace: its tags, a dict or not
ItemsOf(ns) ==
    {[namespace |-> ns, is_dict |-> TRUE,
      tags |-> [k \in S |-> DefinedValue(ns, k)]] : S \in KeySets}
    \cup {[namespace |-> ns, is_dict |-> FALSE, tags |-> <<>>]}

RECURSIVE ItemSeqs(_)
\* the item sequences whose namespaces are `names`, in that order
ItemSeqs(names) ==
    IF names = <<>> THEN {<<>>}
    ELSE {<<item>> \o rest :
             item \in ItemsOf(Head(names)), rest \in ItemSeqs(Tail(names))}

\* the defined_tags argument: the items of a dict, in its order
DefinedTags ==
    UNION {ItemSeqs(names) :
              names \in {q \in SeqsUpTo(Namespaces, MaxNamespaces) :
                            Injective(q)}}

FreeformOrder_reversed == <<"Team", "Maintainer", "Contact", "CreatedBy", "Owner">>

\* line 230
FreeformOrder == <<"Owner", "CreatedBy", "Contact", "Maintainer", "Team">>

DefinedOrder_reversed == <<"ApplicationOwner", "Contact", "CreatedBy", "Owner">>

\* line 238
DefinedOrder == <<"Owner", "CreatedBy", "Contact", "ApplicationOwner">>

\* the place in `order` of the first key that `tags` holds, 0 when none
FirstPresent(order, tags) ==
    LET hits == {i \in 1..Len(order) : order[i] \in DOMAIN tags}
    IN IF hits = {} THEN 0
       ELSE CHOOSE i \in hits : \A j \in hits : i <= j

\* lines 226-242
get_owner_from_tags(defined_tags, freeform_tags) ==
    LET f == FirstPresent(FreeformOrder, freeform_tags)
        hits == {i \in 1..Len(defined_tags) :
                    /\ defined_tags[i].is_dict
                    /\ FirstPresent(DefinedOrder, defined_tags[i].tags) # 0}
    IN IF f # 0 THEN freeform_tags[FreeformOrder[f]]
       ELSE IF hits = {} THEN "Unknown"
       ELSE LET i == CHOOSE h \in hits : \A j \in hits : h <= j
                t == defined_tags[i].tags
            IN t[DefinedOrder[FirstPresent(DefinedOrder, t)]]

InitOwner ==
    /\ IdleScan
    /\ InitResolver
    /\ InitComp
    /\ IdleProc
    /\ IdleRun
    /\ IdleUnits
    /\ api_calls_made = 0
    /\ owner_in \in {<<[defined_tags |-> d, freeform_tags |-> f]>> :
                        d \in DefinedTags, f \in FreeformTags}
    /\ owner_out = <<>>

\* lines 290-293: the call made for one instance
OwnerCall ==
    /\ owner_out = <<>>
    /\ owner_out' = <<get_owner_from_tags(owner_in[1].defined_tags,
                                          owner_in[1].freeform_tags)>>
    /\ UNCHANGED <<owner_in, api_calls_made>>
    /\ UNCHANGED <<scan_vars, resolver_vars, comp_vars, proc_vars, run_vars>>
    /\ UNCHANGED unit_vars

NextOwner == OwnerCall

SpecOwner == InitOwner /\ [][NextOwner]_vars

----------------------------------------------------------------------------
(* The age of an instance: calculate_days_since_created *)

\* Instants and wall-clock readings count half days (12 hours) from an
\* origin; a day is two of them.
TicksPerDay == 2

\* line 265: datetime.now(timezone.utc), three days after the origin
NowTick == 6

\* A time_created value: None or '' ("empty"), a str that is no ISO
\* timestamp ("garbage"), an ISO str, or a datetime.  `tick` is the
\* wall-clock reading written in it, `micro` tells whether a str carries
\* microseconds, `suffix` is the zone designator of a str or the tzinfo of
\* a datetime ("" for none).
TimeValue(kind, tick, micro, suffix) ==
    [kind |-> kind, tick |-> tick, micro |-> micro, suffix |-> suffix]

EmptyTime == TimeValue("empty", 0, FALSE, "")

GarbageTime == TimeValue("garbage", 0, FALSE, "")

\* line 254: .replace('+00:00', '').replace('Z', '')
StripUtc(suffix) == IF suffix \in {"Z", "+00:00"} THEN "" ELSE suffix

\* the offset from UTC that a zone designator or a tzinfo stands for
OffsetTicks(suffix) ==
    CASE suffix = "+12:00" -> 1
      [] suffix = "-12:00" -> -1
      [] OTHER -> 0

\* lines 252-263: the instant the value is read as, or no instant when
\* fromisoformat raises
ParseCreated(tc) ==
    CASE tc.kind = "str" ->
            IF tc.micro
            THEN \* line 257: fromisoformat(...).replace(tzinfo=utc) keeps the
                 \* wall-clock reading and drops any other offset
                 [ok |-> TRUE, instant |-> tc.tick]
            ELSE \* line 259: a second offset after a remaining one is no
                 \* ISO timestamp
                 IF StripUtc(tc.suffix) = ""
                 THEN [ok |-> TRUE, instant |-> tc.tick]
                 ELSE [ok |-> FALSE, instant |-> 0]
      [] tc.kind = "datetime" ->
            \* lines 262-263: a naive datetime is taken as UTC, an aware
            \* one keeps its offset of twelve hours
            [ok |-> TRUE, instant |-> tc.tick - OffsetTicks(tc.suffix)]
      [] OTHER -> [ok |-> FALSE, instant |-> 0]

\* line 266: timedelta.days, the whole days of a difference, rounded down
DaysBetween(later, earlier) == (later - earlier) \div TicksPerDay

NonNegative_identity(days) == days

\* line 268: max(0, days)
NonNegative(days) == IF days > 0 THEN days ELSE 0

calculate_days_since_created_noDefault(time_created) ==
    IF time_created.kind = "empty" THEN 0
    ELSE LET p == ParseCreated(time_created)
             days == DaysBetween(NowTick, p.instant)
         IN IF ~p.ok THEN -1 ELSE NonNegative(days)

\* lines 244-273
calculate_days_since_created(time_created) ==
    IF time_created.kind = "empty" THEN 0
    ELSE LET p == ParseCreated(time_created)
             days == DaysBetween(NowTick, p.instant)
         IN IF ~p.ok THEN 0 ELSE NonNegative(days)

\* the time_created values the function is applied to on its own: every
\* wall-clock reading from the origin to MaxTick, as a str with each zone
\* designator, with and without microseconds, and as a datetime, naive or
\* aware; None and a str that is no timestamp
TimeValues ==
    {TimeValue("str", k, mi, sf) :
        k \in 0..MaxTick, mi \in BOOLEAN,
        sf \in {"", "Z", "+00:00", "+12:00", "-12:00"}}
    \cup {TimeValue("datetime", k, FALSE, sf) :
             k \in 0..MaxTick, sf \in {"", "+00:00", "+12:00", "-12:00"}}
    \cup {EmptyTime, GarbageTime}

InitAge ==
    /\ IdleScan
    /\ InitResolver
    /\ InitComp
    /\ IdleOwner
    /\ IdleProc
    /\ IdleRun
    /\ api_calls_made = 0
    /\ age_in \in {<<tc>> : tc \in TimeValues}
    /\ age_out = <<>>
    /\ hist_in = <<>>
    /\ hist_out = <<>>
    /\ order_in = <<>>
    /\ order_out = <<>>

\* line 297: the call made for one instance
AgeCall ==
    /\ age_out = <<>>
    /\ age_out' = <<calculate_days_since_created(age_in[1])>>
    /\ UNCHANGED <<age_in, hist_in, hist_out, order_in, order_out,
                   api_calls_made>>
    /\ UNCHANGED <<scan_vars, resolver_vars, comp_vars, owner_vars, proc_vars,
                   run_vars>>

NextAge == AgeCall

SpecAge == InitAge /\ [][NextAge]_vars

----------------------------------------------------------------------------
(* The age histogram of generate_html_report *)

\* line 430: the keys of age_ranges
AgeLabels == {"0-29 days", "30-89 days", "90-179 days", "180-364 days",
              "365+ days"}

BucketOf_inclusive(days) ==
    IF days <= 30 THEN "0-29 days"
    ELSE IF days <= 90 THEN "30-89 days"
    ELSE IF days <= 180 THEN "90-179 days"
    ELSE IF days <= 365 THEN "180-364 days"
    ELSE "365+ days"

\* lines 432-441: the key whose count a report increments
BucketOf(days) ==
    IF days < 30 THEN "0-29 days"
    ELSE IF days < 90 THEN "30-89 days"
    ELSE IF days < 180 THEN "90-179 days"
    ELSE IF days < 365 THEN "180-364 days"
    ELSE "365+ days"

RECURSIVE CountAges(_, _, _)
\* lines 431-441: the loop from report i on, over the counts so far
CountAges(results, i, age_ranges) ==
    IF i > Len(results) THEN age_ranges
    ELSE CountAges(results, i + 1,
                   [age_ranges EXCEPT
                       ![BucketOf(results[i].days_since_created)] = @ + 1])

\* lines 430-441
AgeHistogram(results) ==
    CountAges(results, 1, [label \in AgeLabels |-> 0])

\* the ages of the reports handed to the renderer: both sides of every
\* bucket limit
AgesTried == {0, 29, 30, 89, 90, 179, 180, 364, 365, 400}

ReportLists ==
    {[i \in 1..Len(q) |-> [days_since_created |-> q[i]]] :
        q \in SeqsUpTo(AgesTried, MaxReports) \ {<<>>}}

InitHistogram ==
    /\ IdleScan
    /\ InitResolver
    /\ InitComp
    /\ IdleOwner
    /\ IdleProc
    /\ IdleRun
    /\ api_calls_made = 0
    /\ hist_in \in {<<results>> : results \in ReportLists}
    /\ hist_out = <<>>
    /\ age_in = <<>>
    /\ age_out = <<>>
    /\ order_in = <<>>
    /\ order_out = <<>>

\* lines 429-441 of a call of generate_html_report (line 858)
HistogramCall ==
    /\ hist_out = <<>>
    /\ hist_out' = <<AgeHistogram(hist_in[1])>>
    /\ UNCHANGED <<hist_in, age_in, age_out, order_in, order_out,
                   api_calls_made>>
    /\ UNCHANGED <<scan_vars, resolver_vars, comp_vars, owner_vars, proc_vars,
                   run_vars>>

NextHistogram == HistogramCall

SpecHistogram == InitHistogram /\ [][NextHistogram]_vars

----------------------------------------------------------------------------
(* The result processor: process_stopped_instance and process_instances *)

\* lines 288-304: the attributes read without a default
DirectFields == {"compartment_id", "time_created", "display_name", "id",
                 "shape"}

\* what a raw record of a batch can look like: the attributes it lacks and
\* its time_created
RecordShapes ==
    {[missing |-> {}, time_created |-> tc] :
        tc \in {TimeValue("datetime", 0, FALSE, "+00:00"),
                TimeValue("datetime", 2, FALSE, "+00:00"),
                TimeValue("datetime", 8, FALSE, "+00:00"),
                TimeValue("str", 2, FALSE, "Z"),
                TimeValue("str", 0, FALSE, "+12:00"),
                GarbageTime, EmptyTime}}
    \cup {[missing |-> {f}, time_created |-> TimeValue("datetime", 0, FALSE, "+00:00")] :
             f \in {"id", "shape", "time_created", "fault_domain"}}

\* the raw record at place i of a batch; its id names the place
RawRecord(i, shape) ==
    [id |-> i, missing |-> shape.missing, time_created |-> shape.time_created,
     compartment_id |-> "ocid1.compartment.a", region |-> "us-ashburn-1"]

Batches ==
    {[i \in 1..Len(q) |-> RawRecord(i, q[i])] :
        q \in SeqsUpTo(RecordShapes, MaxBatch)}

\* --min-days, an int
MinDaysTried == {-1, 0, 2, 3}

\* line 288: self.compartment_cache.get(instance.compartment_id, "Unknown")
CompartmentName(cache, id) ==
    IF id \in Keys(cache) THEN Get(cache, id) ELSE "Unknown"

\* reading an attribute the record lacks raises AttributeError
RaisesInTry(instance) == instance.missing \cap DirectFields # {}

\* line 380: the handler reads instance.id for its message
RaisesInHandler(instance) == "id" \in instance.missing

\* lines 285-315, for a record that holds the attributes read directly
process_stopped_instance(cache, instance, region) ==
    [instance_id |-> instance.id,
     region |-> region,
     compartment_id |-> instance.compartment_id,
     compartment_name |-> CompartmentName(cache, instance.compartment_id),
     days_since_created |->
         calculate_days_since_created(instance.time_created),
     fault_domain |-> IF "fault_domain" \in instance.missing THEN "Unknown"
                      ELSE "FAULT-DOMAIN-1"]

Qualifies_strict(days, min) == days > min

\* line 376
Qualifies(days, min) == days >= min

\* list.sort(key=days_since_created, reverse=True) places an element after
\* the elements that are as old or older: the sort is stable
InsertDesc(sorted, x) ==
    LET k == Cardinality({i \in 1..Len(sorted) :
                 sorted[i].days_since_created >= x.days_since_created})
    IN SubSeq(sorted, 1, k) \o <<x>> \o SubSeq(sorted, k + 1, Len(sorted))

SortDesc_unsorted(q) == q

RECURSIVE SortDesc(_)
\* line 384
SortDesc(q) ==
    IF q = <<>> THEN <<>>
    ELSE InsertDesc(SortDesc(SubSeq(q, 1, Len(q) - 1)), q[Len(q)])

RECURSIVE ProcessLoop(_, _, _, _, _)
\* lines 371-387: the loop from record i on, `results` collected so far
ProcessLoop(cache, instances, min, i, results) ==
    IF i > Len(instances)
    THEN [how |-> "returned", results |-> SortDesc(results)]
    ELSE IF RaisesInTry(instances[i])
    THEN IF RaisesInHandler(instances[i])
         THEN [how |-> "raised", results |-> <<>>]
         ELSE ProcessLoop(cache, instances, min, i + 1, results)
    ELSE LET r == process_stopped_instance(cache, instances[i],
                                           instances[i].region)
         IN ProcessLoop(cache, instances, min, i + 1,
                        IF Qualifies(r.days_since_created, min)
                        THEN Append(results, r) ELSE results)

\* lines 365-387
process_instances(cache, instances, min) ==
    ProcessLoop(cache, instances, min, 1, <<>>)

InitProcess ==
    /\ IdleScan
    /\ InitResolver
    /\ InitComp
    /\ IdleOwner
    /\ IdleRun
    /\ IdleUnits
    /\ api_calls_made = 0
    /\ batch \in Batches
    /\ min_days \in MinDaysTried
    /\ proc_out = <<>>

\* line 851: the call of process_instances
ProcessCall ==
    /\ proc_out = <<>>
    /\ proc_out' = <<process_instances(compartment_cache, batch, min_days)>>
    /\ UNCHANGED <<batch, min_days, api_calls_made>>
    /\ UNCHANGED <<scan_vars, resolver_vars, comp_vars, owner_vars, unit_vars, run_vars>>

NextProcess == ProcessCall

SpecProcess == InitProcess /\ [][NextProcess]_vars

----------------------------------------------------------------------------
(* The scan followed by process_instances, as a function of the answers of
   the listing calls and of the order in which the tasks complete *)

\* the cells of the scan whose completion orders are compared
OrderCells ==
    BuildTasks(<<"us-ashburn-1", "us-phoenix-1">>, <<"ocid1.compartment.a">>)

\* the creation times of the instances listed: three days old, one day old
OrderTimes == {TimeValue("datetime", 0, FALSE, "+00:00"),
               TimeValue("datetime", 4, FALSE, "+00:00")}

\* lines 204-207: the answer of list_instances for a cell, one instance per
\* creation time
OrderAnswer(cell, times) ==
    [k \in 1..Len(times) |->
        [id |-> <<cell[1], cell[2], k>>, missing |-> {},
         time_created |-> times[k], compartment_id |-> cell[2],
         region |-> NoRegion]]

\* the orders in which n futures can complete
CompletionOrders(n) ==
    {q \in SeqsUpTo(1..n, n) : Len(q) = n /\ Injective(q)}

RECURSIVE CollectInOrder(_, _, _, _, _)
\* lines 339-347: the as_completed loop from the i-th completion on
CollectInOrder(cells, answers, order, i, all) ==
    IF i > Len(order) THEN all
    ELSE CollectInOrder(cells, answers, order, i + 1,
                        Aggregate(all, answers[order[i]], cells[order[i]][1]))

\* lines 844 and 851: discover_stopped_instances, then process_instances
ScanThenProcess(cells, answers, order, min) ==
    process_instances(<<>>, CollectInOrder(cells, answers, order, 1, <<>>),
                      min).results

InitOrder ==
    /\ IdleScan
    /\ InitResolver
    /\ InitComp
    /\ IdleOwner
    /\ IdleProc
    /\ IdleRun
    /\ api_calls_made = 0
    /\ order_in \in
          {<<[k \in 1..Len(OrderCells) |-> OrderAnswer(OrderCells[k], ts[k])],
             min>> :
              ts \in [1..Len(OrderCells) -> SeqsUpTo(OrderTimes, MaxAnswer)],
              min \in {0, 2}}
    /\ order_out = <<>>
    /\ age_in = <<>>
    /\ age_out = <<>>
    /\ hist_in = <<>>
    /\ hist_out = <<>>

\* two runs over the same answers, their tasks completing in the orders
\* first and second
OrderCall(first, second) ==
    /\ order_out = <<>>
    /\ order_out' =
          <<ScanThenProcess(OrderCells, order_in[1], first, order_in[2]),
            ScanThenProcess(OrderCells, order_in[1], second, order_in[2])>>
    /\ UNCHANGED <<order_in, age_in, age_out, hist_in, hist_out,
                   api_calls_made>>
    /\ UNCHANGED <<scan_vars, resolver_vars, comp_vars, owner_vars, proc_vars,
                   run_vars>>

NextOrder ==
    \E first, second \in CompletionOrders(Len(OrderCells)) :
        OrderCall(first, second)

SpecOrder == InitOrder /\ [][NextOrder]_vars

----------------------------------------------------------------------------
(* One run: main and list_stopped_instances.  The scan is taken at the     *)
(* grain of its result: which cells were listed and what they held.  Its   *)
(* steps, with retries and the pool, are those of Spec.                    *)

\* the scan's own variables, which this grain leaves alone
scan_steps == <<phase, pc, attempt, retry_delay, loaded, result, outcome,
                errors, slept, calls, collected, all_instances, raised,
                late_starts, task_cfg>>

\* --regions and --compartments, split at line 914-915; None when not given
RegionArgs == {<<>>, <<"us-ashburn-1">>}

CompartmentArgs == {<<>>, <<"ocid1.compartment.a">>}

\* --min-days
MinDaysArgs == {0, 3}

\* the answers of list_region_subscriptions tried in a run
RunSubscriptions ==
    {<<>>,
     <<[region_name |-> "eu-frankfurt-1", status |-> "IN_PROGRESS"]>>,
     <<[region_name |-> "us-phoenix-1", status |-> "READY"],
       [region_name |-> "eu-frankfurt-1", status |-> "IN_PROGRESS"]>>}

\* the answers of list_compartments tried in a run
RunListings ==
    {<<>>,
     <<[id |-> "ocid1.compartment.a", lifecycle_state |-> "ACTIVE"],
       [id |-> "ocid1.compartment.b", lifecycle_state |-> "DELETED"]>>}

\* the creation times of the instances found: three days old, or new
FoundTimes == {TimeValue("datetime", 0, FALSE, "+00:00"),
               TimeValue("datetime", 6, FALSE, "+00:00")}

\* list(compartments.keys()), line 838
KeyList(d) == [i \in 1..Len(d) |-> d[i][1]]

PoolAccepts_moreThanOne(limit) == limit > 1

\* line 330: ThreadPoolExecutor raises ValueError for max_workers <= 0
PoolAccepts(limit) == limit > 0

\* --skip-regions, split at line 909; <<>> when the option is not given
SkipArgs == {<<>>, <<"us-ashburn-1">>}

\* lines 85-98: what _setup_oci_config does with the configuration file
\* (found or not, valid or not), the tenancy id passed to the constructor
\* and the tenancy entry of the file
SetupResult(found, valid, arg_tenancy, file_tenancy) ==
    IF ~found THEN "ConfigFileNotFound"
    ELSE IF ~valid THEN "InvalidConfig"
    ELSE IF ~(arg_tenancy \/ file_tenancy) THEN "NoTenancy"
    ELSE "ok"

SetupExits_never(setup) == FALSE

\* lines 102-107: both handlers of _setup_oci_config end in sys.exit(1)
SetupExits(setup) == setup # "ok"

\* lines 905-939: main parses its arguments, constructs the lister and calls
\* list_stopped_instances
RunStart(rs, cs, md, mw, found, valid, arg_tenancy, file_tenancy) ==
    /\ run_pc = "idle"
    /\ ~SetupExits(SetupResult(found, valid, arg_tenancy, file_tenancy))
    /\ run_pc' = "regions"
    /\ user_regions' = rs
    /\ user_compartments' = cs
    /\ min_days' = md
    /\ max_workers' = mw
    /\ run_setup' = SetupResult(found, valid, arg_tenancy, file_tenancy)
    /\ UNCHANGED <<run_return, run_files, run_listing_calls, run_exc, run_skip>>
    /\ UNCHANGED <<regions, compartment_ids, tasks, stopped_instances_found,
                   exit_code, scan_steps, api_calls_made, batch, proc_out>>
    /\ UNCHANGED <<resolver_vars, comp_vars, owner_vars, unit_vars>>

\* lines 927-931 and 77, 102-107: the constructor calls _setup_oci_config,
\* whose sys.exit(1) raises SystemExit; neither handler of main (lines
\* 952-959) catches it, so the process ends with exit code 1
RunSetupFails(rs, cs, md, mw, found, valid, arg_tenancy, file_tenancy) ==
    /\ run_pc = "idle"
    /\ SetupExits(SetupResult(found, valid, arg_tenancy, file_tenancy))
    /\ run_pc' = "exited"
    /\ exit_code' = 1
    /\ user_regions' = rs
    /\ user_compartments' = cs
    /\ min_days' = md
    /\ max_workers' = mw
    /\ run_setup' = SetupResult(found, valid, arg_tenancy, file_tenancy)
    /\ UNCHANGED <<run_return, run_files, run_listing_calls, run_exc, run_skip>>
    /\ UNCHANGED <<regions, compartment_ids, tasks, stopped_instances_found,
                   scan_steps, api_calls_made, batch, proc_out>>
    /\ UNCHANGED <<resolver_vars, comp_vars, owner_vars, unit_vars>>

\* lines 908-911 with --skip-regions given: line 910 reads the local name
\* `regions`, which is first assigned in line 915, so UnboundLocalError is
\* raised outside the try of line 925 and the interpreter ends with exit
\* code 1; the lister is never constructed
RunSkipFails(skip) ==
    /\ run_pc = "idle"
    /\ skip # <<>>
    /\ run_skip' = skip
    /\ run_exc' = "UnboundLocalError@910"
    /\ exit_code' = 1
    /\ run_pc' = "exited"
    /\ UNCHANGED <<user_regions, user_compartments, min_days, max_workers,
                   run_setup, run_return, run_files, run_listing_calls>>
    /\ UNCHANGED <<regions, compartment_ids, tasks, stopped_instances_found,
                   scan_steps, api_calls_made, batch, proc_out>>
    /\ UNCHANGED <<resolver_vars, comp_vars, owner_vars, unit_vars>>

\* the part of a step of the run that is the same for every step after
\* the arguments are read
RunFrame ==
    /\ UNCHANGED <<user_regions, user_compartments, min_days, max_workers,
                   run_setup, run_skip>>
    /\ UNCHANGED <<scan_steps, owner_vars, unit_vars>>

\* lines 832-833 with regions given: the resolver is not called
RunRegionsGiven ==
    /\ run_pc = "regions"
    /\ user_regions # <<>>
    /\ regions' = user_regions
    /\ run_pc' = "compartments"
    /\ UNCHANGED <<run_return, run_files, run_listing_calls, run_exc>>
    /\ UNCHANGED <<compartment_ids, tasks, stopped_instances_found,
                   exit_code, api_calls_made, batch, proc_out>>
    /\ UNCHANGED <<resolver_vars, comp_vars>>
    /\ RunFrame

\* line 833: get_subscribed_regions is called and lists the subscriptions
RunListsRegions(subs) ==
    /\ run_pc = "regions"
    /\ user_regions = <<>>
    /\ region_returns = <<>>
    /\ RegionsListed(subs)

\* line 833: get_subscribed_regions is called, list_region_subscriptions
\* raises
RunRegionsListFails ==
    /\ run_pc = "regions"
    /\ user_regions = <<>>
    /\ region_returns = <<>>
    /\ RegionsListFails

\* line 833: get_subscribed_regions is called, IdentityClient raises
RunRegionsClientFails ==
    /\ run_pc = "regions"
    /\ user_regions = <<>>
    /\ region_returns = <<>>
    /\ RegionsClientFails

\* lines 833-835: regions = the value get_subscribed_regions returned
RunRegionsResolved ==
    /\ run_pc = "regions"
    /\ region_returns # <<>>
    /\ regions' = region_returns[Len(region_returns)].value
    /\ run_pc' = "compartments"
    /\ UNCHANGED <<run_return, run_files, run_listing_calls, run_exc>>
    /\ UNCHANGED <<compartment_ids, tasks, stopped_instances_found,
                   exit_code, api_calls_made, batch, proc_out>>
    /\ UNCHANGED <<resolver_vars, comp_vars>>
    /\ RunFrame

\* line 837: get_all_compartments(compartment_ids) resolves the given ids
RunExplicitCompartments(failing) ==
    /\ run_pc = "compartments"
    /\ comp_returns = <<>>
    /\ CompsExplicit(user_compartments, failing)

\* line 837: get_all_compartments(None) lists the compartments
RunListsCompartments(listing, tenancy_ok) ==
    /\ run_pc = "compartments"
    /\ comp_returns = <<>>
    /\ CompsListed(user_compartments, listing, tenancy_ok)

\* line 837: get_all_compartments(None), list_compartments raises
RunCompartmentsListFails ==
    /\ run_pc = "compartments"
    /\ comp_returns = <<>>
    /\ CompsListFails(user_compartments)

\* line 837: get_all_compartments, IdentityClient raises
RunCompartmentsClientFails ==
    /\ run_pc = "compartments"
    /\ comp_returns = <<>>
    /\ CompsClientFails(user_compartments)

\* lines 837-839: compartment_list = list(compartments.keys())
RunCompartmentsResolved ==
    /\ run_pc = "compartments"
    /\ comp_returns # <<>>
    /\ compartment_ids' = KeyList(comp_returns[Len(comp_returns)].value)
    /\ run_pc' = "discover"
    /\ UNCHANGED <<run_return, run_files, run_listing_calls, run_exc>>
    /\ UNCHANGED <<regions, tasks, stopped_instances_found, exit_code,
                   api_calls_made, batch, proc_out>>
    /\ UNCHANGED <<resolver_vars, comp_vars>>
    /\ RunFrame

\* lines 844, 322-330: the pool rejects max_workers; the ValueError leaves
\* list_stopped_instances
RunPoolRejected ==
    /\ run_pc = "discover"
    /\ ~PoolAccepts(max_workers)
    /\ run_exc' = "ValueError@330"
    /\ run_pc' = "failed"
    /\ UNCHANGED <<run_return, run_files, run_listing_calls>>
    /\ UNCHANGED <<regions, compartment_ids, tasks, stopped_instances_found,
                   exit_code, api_calls_made, batch, proc_out>>
    /\ UNCHANGED <<resolver_vars, comp_vars>>
    /\ RunFrame

\* the raw record a cell returned, tagged with the cell's region
FoundRecord(cell, tc) ==
    [id |-> 1, missing |-> {}, time_created |-> tc,
     compartment_id |-> cell[2], region |-> cell[1]]

\* lines 844, 317-363: every cell is listed once; cell `found` holds one
\* stopped instance created at tc, no cell does when found = 0
RunDiscover(found, tc) ==
    /\ run_pc = "discover"
    /\ PoolAccepts(max_workers)
    /\ LET ts == BuildTasks(regions, compartment_ids)
       IN /\ found \in 0..Len(ts)
          /\ tasks' = ts
          /\ run_listing_calls' = ts
          /\ api_calls_made' = api_calls_made + Len(ts)
          /\ batch' = IF found = 0 THEN <<>>
                      ELSE Aggregate(<<>>, <<FoundRecord(ts[found], tc)>>,
                                     ts[found][1])
          /\ stopped_instances_found' = Len(batch')
    /\ run_pc' = "discovered"
    /\ UNCHANGED <<run_return, run_files, run_exc>>
    /\ UNCHANGED <<regions, compartment_ids, exit_code, proc_out>>
    /\ UNCHANGED <<resolver_vars, comp_vars>>
    /\ RunFrame

\* what list_stopped_instances returns when it has nothing to report
\* (lines 848 and 855): three values
NothingToReport == << <<>>, "", "" >>

\* lines 846-848
RunNothingFound ==
    /\ run_pc = "discovered"
    /\ batch = <<>>
    /\ run_return' = NothingToReport
    /\ run_pc' = "returned"
    /\ UNCHANGED <<run_files, run_listing_calls, run_exc>>
    /\ UNCHANGED <<regions, compartment_ids, tasks, stopped_instances_found,
                   exit_code, api_calls_made, batch, proc_out>>
    /\ UNCHANGED <<resolver_vars, comp_vars>>
    /\ RunFrame

\* line 851: process_instances(stopped_instances, min_days)
RunProcess ==
    /\ run_pc = "discovered"
    /\ batch # <<>>
    /\ LET out == process_instances(compartment_cache, batch, min_days)
       IN /\ proc_out' = <<out>>
          /\ run_pc' = IF out.how = "raised" THEN "failed" ELSE "processed"
          /\ run_exc' = IF out.how = "raised" THEN "AttributeError@380"
                        ELSE run_exc
    /\ UNCHANGED <<run_return, run_files, run_listing_calls>>
    /\ UNCHANGED <<regions, compartment_ids, tasks, stopped_instances_found,
                   exit_code, api_calls_made, batch>>
    /\ UNCHANGED <<resolver_vars, comp_vars>>
    /\ RunFrame

HasReports_always(results) == TRUE

\* line 853: `if not results` is false for a non-empty list
HasReports(results) == results # <<>>

\* lines 853-855
RunNothingOverThreshold ==
    /\ run_pc = "processed"
    /\ ~HasReports(proc_out[1].results)
    /\ run_return' = NothingToReport
    /\ run_pc' = "returned"
    /\ UNCHANGED <<run_files, run_listing_calls, run_exc>>
    /\ UNCHANGED <<regions, compartment_ids, tasks, stopped_instances_found,
                   exit_code, api_calls_made, batch, proc_out>>
    /\ UNCHANGED <<resolver_vars, comp_vars>>
    /\ RunFrame

\* lines 857-862: the reports are written and four values are returned
RunRender ==
    /\ run_pc = "processed"
    /\ HasReports(proc_out[1].results)
    /\ run_files' = {"csv", "html"}
    /\ run_return' = <<proc_out[1].results, "csv", "html", "summary">>
    /\ run_pc' = "returned"
    /\ UNCHANGED <<run_listing_calls, run_exc>>
    /\ UNCHANGED <<regions, compartment_ids, tasks, stopped_instances_found,
                   exit_code, api_calls_made, batch, proc_out>>
    /\ UNCHANGED <<resolver_vars, comp_vars>>
    /\ RunFrame

\* line 934: results, csv_file, html_file, summary = ...
Unpacks(returned) == Len(returned) = 4

\* lines 934-950 and the end of main: the process exits with code 0
RunUnpacked ==
    /\ run_pc = "returned"
    /\ Unpacks(run_return)
    /\ exit_code' = 0
    /\ run_pc' = "exited"
    /\ UNCHANGED <<run_return, run_files, run_listing_calls, run_exc>>
    /\ UNCHANGED <<regions, compartment_ids, tasks, stopped_instances_found,
                   api_calls_made, batch, proc_out>>
    /\ UNCHANGED <<resolver_vars, comp_vars>>
    /\ RunFrame

\* lines 934 and 955-959: the assignment raises ValueError, which main's
\* handler turns into sys.exit(1)
RunUnpackFails ==
    /\ run_pc = "returned"
    /\ ~Unpacks(run_return)
    /\ run_exc' = "ValueError@934"
    /\ exit_code' = 1
    /\ run_pc' = "exited"
    /\ UNCHANGED <<run_return, run_files, run_listing_calls>>
    /\ UNCHANGED <<regions, compartment_ids, tasks, stopped_instances_found,
                   api_calls_made, batch, proc_out>>
    /\ UNCHANGED <<resolver_vars, comp_vars>>
    /\ RunFrame

\* lines 955-959: an exception of list_stopped_instances ends in sys.exit(1)
RunFailed ==
    /\ run_pc = "failed"
    /\ exit_code' = 1
    /\ run_pc' = "exited"
    /\ UNCHANGED <<run_return, run_files, run_listing_calls, run_exc>>
    /\ UNCHANGED <<regions, compartment_ids, tasks, stopped_instances_found,
                   api_calls_made, batch, proc_out>>
    /\ UNCHANGED <<resolver_vars, comp_vars>>
    /\ RunFrame

NextRun ==
    \/ \E rs \in RegionArgs, cs \in CompartmentArgs, md \in MinDaysArgs,
          mw \in 0..MaxRunWorkers, found, valid, at, ft \in BOOLEAN :
           RunStart(rs, cs, md, mw, found, valid, at, ft)
    \/ \E rs \in RegionArgs, cs \in CompartmentArgs, md \in MinDaysArgs,
          mw \in 0..MaxRunWorkers, found, valid, at, ft \in BOOLEAN :
           RunSetupFails(rs, cs, md, mw, found, valid, at, ft)
    \/ \E skip \in SkipArgs : RunSkipFails(skip)
    \/ RunRegionsGiven
    \/ \E subs \in RunSubscriptions : RunListsRegions(subs)
    \/ RunRegionsListFails
    \/ RunRegionsClientFails
    \/ RunRegionsResolved
    \/ \E failing \in SUBSET (1..MaxIds) :
           failing \subseteq DOMAIN user_compartments
               /\ RunExplicitCompartments(failing)
    \/ \E listing \in RunListings, tenancy_ok \in BOOLEAN :
           RunListsCompartments(listing, tenancy_ok)
    \/ RunCompartmentsListFails
    \/ RunCompartmentsClientFails
    \/ RunCompartmentsResolved
    \/ RunPoolRejected
    \/ \E found \in 0..MaxCells, tc \in FoundTimes : RunDiscover(found, tc)
    \/ RunNothingFound
    \/ RunProcess
    \/ RunNothingOverThreshold
    \/ RunRender
    \/ RunUnpacked
    \/ RunUnpackFails
    \/ RunFailed

SpecRun == InitRegions /\ [][NextRun]_vars

----------------------------------------------------------------------------
Next ==
    \/ PoolRejected
    \/ SubmitAll
    \/ \E t \in TaskIds : Start(t)
    \/ \E t \in TaskIds : Store(t)
    \/ \E t \in TaskIds, n \in InstCounts : CallReturns(t, n)
    \/ \E t \in TaskIds, e \in ErrorTexts : CallRaises(t, e)
    \/ \E t \in TaskIds : Wake(t)
    \/ \E t \in TaskIds : Collect(t)
    \/ Return
    \/ Interrupt
    \/ ShutdownDone
    \/ MainExit

Spec == Init /\ [][Next]_vars

\* What the scheduling of the code gives each task t: a free worker takes
\* the oldest queued task, a running thread goes on, a listing call answers
\* or raises within its timeouts (line 197), a sleep ends (line 217), and the
\* collecting thread takes up every finished future (as_completed, line 339)
TaskFairness(t) ==
    /\ WF_vars(t \in TaskIds /\ Start(t))
    /\ WF_vars(t \in TaskIds /\ Store(t))
    /\ WF_vars(t \in TaskIds /\
                 \/ \E n \in InstCounts : CallReturns(t, n)
                 \/ \E e \in ErrorTexts : CallRaises(t, e))
    /\ WF_vars(t \in TaskIds /\ Wake(t))
    /\ WF_vars(t \in TaskIds /\ Collect(t))

\* the scan under fair scheduling of the workers and of the collecting
\* thread; an interrupt may come or not
SpecFair ==
    /\ Init
    /\ [][Next]_vars
    /\ \A t \in 1..MaxTasks : TaskFairness(t)
    /\ WF_vars(Return)
    /\ WF_vars(ShutdownDone)

----------------------------------------------------------------------------
(* Properties *)

RECURSIVE SumUpTo(_, _)
\* f[1] + ... + f[n]
SumUpTo(f, n) == IF n = 0 THEN 0 ELSE f[n] + SumUpTo(f, n - 1)

\* listing calls issued by all tasks
TotalCalls == SumUpTo(calls, Len(calls))

\* how often record x occurs in sequence q
Occurrences(x, q) == Cardinality({i \in 1..Len(q) : q[i] = x})

\* records the collected tasks returned
CollectedCount ==
    SumUpTo([t \in 1..Len(result) |->
                IF t \in collected THEN Len(result[t]) ELSE 0], Len(result))

\* C1: when discover_stopped_instances returns, api_calls_made has grown by
\* exactly the number of listing calls all the tasks issued.
C1_NoIncrementLost ==
    phase = "returned" => api_calls_made = TotalCalls

\* C2: a task issues at most 3 listing calls; it sleeps only after a
\* transient error of attempt 1 or 2, 5 seconds before attempt 2 and 10
\* seconds before attempt 3; an error of attempt 3 ends the task with the
\* empty result and no further sleep.
C2_RetryBound ==
    \A t \in TaskIds :
        /\ calls[t] <= 3
        /\ Len(errors[t]) <= 3
        /\ calls[t] <= Len(slept[t]) + 1
        /\ Len(slept[t]) <= 2
        /\ slept[t] = SubSeq(<<5, 10>>, 1, Len(slept[t]))
        /\ \A i \in 1..Len(slept[t]) :
              i <= Len(errors[t]) /\ errors[t][i] = "transient"
        /\ Len(errors[t]) = 3 =>
              /\ pc[t] = "done"
              /\ result[t] = <<>>
              /\ Len(slept[t]) = 2

\* a task met three transient errors and slept 5 and then 10 seconds
C2_Witness ==
    \E t \in TaskIds :
        /\ errors[t] = <<"transient", "transient", "transient">>
        /\ slept[t] = <<5, 10>>
        /\ calls[t] = 3
        /\ pc[t] = "done"

\* C3: the aggregate holds as many records as the collected tasks returned,
\* failed cells counting for none, and every task is collected on return.
C3_AggregateCount ==
    /\ Len(all_instances) = CollectedCount
    /\ phase = "returned" => collected = TaskIds

\* the scan returned after two cells answered with records
C3_Witness ==
    /\ phase = "returned"
    /\ \E t, u \in TaskIds :
          t # u /\ Len(result[t]) = 2 /\ Len(result[u]) = 2 /\ collected = {t, u}
    /\ Len(all_instances) = 4

\* C4: when the scan returns every task has run to its end and every record
\* of every cell that succeeded is in the aggregate, whichever cells failed;
\* the only exceptions that leave the scan are the interrupt and the pool's
\* ValueError.
C4_FailuresIsolated ==
    /\ raised \in {"none", "KeyboardInterrupt", "ValueError"}
    /\ phase = "returned" =>
          /\ \A t \in TaskIds : pc[t] = "done"
          /\ \A t \in TaskIds :
                outcome[t] = "ok" =>
                    \A i \in 1..Len(result[t]) :
                        Occurrences(result[t][i], all_instances) >= 1

\* the scan returned the records of a cell that was collected before a cell
\* that failed
C4_Witness ==
    /\ phase = "returned"
    /\ \E t, u \in TaskIds :
          /\ outcome[t] = "failed"
          /\ outcome[u] = "ok"
          /\ Len(result[u]) = 2
          /\ Len(all_instances) = 2

\* C5: an error that is not transient ends the task at once: it is the last
\* error of the task, the result is empty, and the task neither sleeps nor
\* calls again after it.
C5_NonTransientGivesUp ==
    \A t \in TaskIds :
        \A i \in 1..Len(errors[t]) :
            errors[t][i] = "other" =>
                /\ i = Len(errors[t])
                /\ pc[t] = "done"
                /\ result[t] = <<>>
                /\ Len(slept[t]) = i - 1
                /\ calls[t] = i

\* a task gave up on an error of its second attempt that is not transient
C5_Witness ==
    \E t \in TaskIds :
        /\ errors[t] = <<"transient", "other">>
        /\ pc[t] = "done"
        /\ slept[t] = <<5>>

\* C6: each distinct (region, compartment) cell is run by exactly one task
\* and no record is in the returned aggregate more than once.
C6_EachCellOnce ==
    phase = "returned" =>
        /\ \A t, u \in TaskIds : tasks[t] = tasks[u] => t = u
        /\ \A i \in 1..Len(all_instances) :
              Occurrences(all_instances[i], all_instances) = 1

\* C7: at most max_workers tasks are started and not finished.
C7_PoolBound == NumRunning <= max_workers

\* the pool is full while a task waits in the queue
C7_Witness ==
    /\ max_workers = 1
    /\ NumRunning = 1
    /\ \E t \in TaskIds : pc[t] = "queued"

\* C8: after the interrupt no queued task is started, and a run that was
\* interrupted exits with a code other than 0.
C8_InterruptStopsNewTasks ==
    /\ late_starts = {}
    /\ (phase = "exited" /\ raised = "KeyboardInterrupt") => exit_code # 0

\* C9: a cell that succeeds after k transient errors has its records in the
\* aggregate once each and has raised api_calls_made by k + 1: the counter
\* less the calls of the other cells is k + 1.
C9_RetriedCellCounts ==
    phase = "returned" =>
        \A t \in TaskIds :
            outcome[t] = "ok" =>
                /\ \A i \in 1..Len(result[t]) :
                      Occurrences(result[t][i], all_instances) >= 1
                /\ api_calls_made - (TotalCalls - calls[t]) = attempt[t] + 1

\* C10: the second call of get_subscribed_regions returns what the first
\* returned and leaves api_calls_made as the first call left it.
C10_RegionsMemoized ==
    Len(region_returns) >= 2 => region_returns[2] = region_returns[1]

\* C11: every call of get_all_compartments after the first returns the
\* mapping the first returned and leaves api_calls_made as the first call
\* left it, whatever ids it is given; the cache is populated by at most one
\* call.
C11_CompartmentsMemoized ==
    /\ \A i \in 2..Len(comp_returns) :
          /\ comp_returns[i].value = comp_returns[1].value
          /\ comp_returns[i].api_calls_made = comp_returns[1].api_calls_made
    /\ Cardinality({i \in 1..Len(comp_returns) :
                       comp_returns[i].how # "cache"}) <= 1

\* a second call with other ids than the first, which resolved explicit ids
C11_Witness ==
    /\ Len(comp_returns) >= 2
    /\ comp_returns[1].how = "explicit"
    /\ comp_returns[2].ids # comp_returns[1].ids
    /\ comp_returns[2].ids # <<>>

\* the ids of a list that the listing reports ACTIVE
ActiveIds(listing) ==
    {listing[i].id : i \in {j \in 1..Len(listing) :
                               listing[j].lifecycle_state = "ACTIVE"}}

\* the lookup of id k that is the last one made for it
LastLookup(ids, k) ==
    CHOOSE i \in 1..Len(ids) :
        ids[i] = k /\ \A j \in (i + 1)..Len(ids) : ids[j] # k

\* what C18 says of a call with explicit ids: the keys are the given ids,
\* each with its name or with "Unknown"
ExplicitAsClaimed(r) ==
    /\ Keys(r.value) = {r.ids[i] : i \in 1..Len(r.ids)}
    /\ \A k \in Keys(r.value) : Get(r.value, k) \in {NameOf(k), "Unknown"}

\* what C18 says of a call that listed the compartments: the keys are the
\* ACTIVE ones and the tenancy root, the root named "<tenancy name> (Root)"
\* or, when get_tenancy raised, "Root Compartment"
ListedAsClaimed(r) ==
    /\ Keys(r.value) = ActiveIds(r.listing) \cup {tenancy_id}
    /\ Get(r.value, tenancy_id) =
          IF r.root = "named" THEN "acme (Root)" ELSE "Root Compartment"
    /\ \A k \in ActiveIds(r.listing) : Get(r.value, k) = NameOf(k)

C19_FreeformFirst ==
    owner_out # <<>> =>
        LET f == owner_in[1].freeform_tags
            has(k) == k \in DOMAIN f
        IN /\ has("Owner") => owner_out[1] = f["Owner"]
           /\ (~has("Owner") /\ has("CreatedBy")) =>
                 owner_out[1] = f["CreatedBy"]
           /\ (~has("Owner") /\ ~has("CreatedBy") /\ has("Contact")) =>
                 owner_out[1] = f["Contact"]
           /\ (~has("Owner") /\ ~has("CreatedBy") /\ ~has("Contact")
                 /\ has("Maintainer")) => owner_out[1] = f["Maintainer"]
           /\ (~has("Owner") /\ ~has("CreatedBy") /\ ~has("Contact")
                 /\ ~has("Maintainer") /\ has("Team")) =>
                 owner_out[1] = f["Team"]

\* the freeform tags hold two priority keys and the first namespace of the
\* defined tags holds an owner as well
C19_Witness ==
    /\ owner_out # <<>>
    /\ DOMAIN owner_in[1].freeform_tags = {"Contact", "Team"}
    /\ Len(owner_in[1].defined_tags) >= 1
    /\ owner_in[1].defined_tags[1].is_dict
    /\ "Owner" \in DOMAIN owner_in[1].defined_tags[1].tags

\* the owner a namespace item gives by itself: the value of the first of
\* Owner, CreatedBy, Contact, ApplicationOwner it holds
NamespaceOwner(item) ==
    LET t == item.tags
    IN IF "Owner" \in DOMAIN t THEN t["Owner"]
       ELSE IF "CreatedBy" \in DOMAIN t THEN t["CreatedBy"]
       ELSE IF "Contact" \in DOMAIN t THEN t["Contact"]
       ELSE t["ApplicationOwner"]

NamespaceMatches(item) ==
    /\ item.is_dict
    /\ DOMAIN item.tags \cap
          {"Owner", "CreatedBy", "Contact", "ApplicationOwner"} # {}

\* C20: without a freeform priority key, get_owner_from_tags returns the
\* owner of the first namespace, in the order given, that holds one of
\* Owner, CreatedBy, Contact, ApplicationOwner, the keys tried in that
\* order; it returns "Unknown" when no namespace holds any of them.
C20_DefinedScan ==
    (/\ owner_out # <<>>
     /\ DOMAIN owner_in[1].freeform_tags \cap
           {"Owner", "CreatedBy", "Contact", "Maintainer", "Team"} = {}) =>
        LET d == owner_in[1].defined_tags
            m == {i \in 1..Len(d) : NamespaceMatches(d[i])}
        IN /\ m = {} => owner_out[1] = "Unknown"
           /\ \A i \in m :
                 (\A j \in m : i <= j) => owner_out[1] = NamespaceOwner(d[i])

\* two namespaces match, the first with two of the keys; the freeform tags
\* hold only keys outside the freeform list
C20_Witness ==
    /\ owner_out # <<>>
    /\ DOMAIN owner_in[1].freeform_tags = {"ApplicationOwner", "Project"}
    /\ Len(owner_in[1].defined_tags) = 2
    /\ DOMAIN owner_in[1].defined_tags[1].tags = {"Contact", "ApplicationOwner"}
    /\ NamespaceMatches(owner_in[1].defined_tags[2])

\* the records of the batch that hold every attribute read directly
WellFormed(instance) == instance.missing \cap DirectFields = {}

\* the ids of the reports, in their order
ReportIds(results) == [j \in 1..Len(results) |-> results[j].instance_id]

\* C14: for a batch of well-formed records process_instances returns one
\* report for each record whose days_since_created is at least min_days and
\* none for the others, the older report first and, of two reports of the
\* same age, the one that came first in the batch first.
C14_FilterAndStableSort ==
    (/\ proc_out # <<>>
     /\ \A i \in 1..Len(batch) : WellFormed(batch[i])) =>
        LET out == proc_out[1].results
            days(i) == calculate_days_since_created(batch[i].time_created)
        IN /\ proc_out[1].how = "returned"
           /\ \A i \in 1..Len(batch) :
                 Cardinality({j \in 1..Len(out) : out[j].instance_id = i})
                     = IF days(i) >= min_days THEN 1 ELSE 0
           /\ \A j \in 1..Len(out) :
                 /\ out[j].instance_id \in 1..Len(batch)
                 /\ out[j].days_since_created = days(out[j].instance_id)
           /\ \A j \in 1..(Len(out) - 1) :
                 \/ out[j].days_since_created > out[j + 1].days_since_created
                 \/ /\ out[j].days_since_created
                          = out[j + 1].days_since_created
                    /\ out[j].instance_id < out[j + 1].instance_id

\* a batch of three that all pass the filter: the oldest stands second,
\* between two records of one age, which keep their order
C14_Witness ==
    /\ proc_out # <<>>
    /\ Len(batch) = 3
    /\ min_days = 2
    /\ \A i \in 1..3 : WellFormed(batch[i])
    /\ ReportIds(proc_out[1].results) = <<2, 1, 3>>

\* the number of reports process_instances returned for the record at i
ReportsOf(i) ==
    Cardinality({j \in 1..Len(proc_out[1].results) :
                    proc_out[1].results[j].instance_id = i})

\* C15: process_instances never raises; a record that lacks one of the
\* attributes consumed has no report, and every other record whose age is
\* at least min_days has one.
C15_MalformedSkipped ==
    proc_out # <<>> =>
        /\ proc_out[1].how = "returned"
        /\ \A i \in 1..Len(batch) :
              ReportsOf(i) =
                  IF /\ batch[i].missing = {}
                     /\ calculate_days_since_created(batch[i].time_created)
                            >= min_days
                  THEN 1 ELSE 0

\* the time_created of the record is a str that is no timestamp
Unparseable(instance) ==
    /\ WellFormed(instance)
    /\ instance.time_created.kind = "garbage"

\* C16 as stated: a record with an unparseable time_created has no report,
\* whatever min_days is.
C16_MalformedTimestampSkipped ==
    (proc_out # <<>> /\ proc_out[1].how = "returned") =>
        \A i \in 1..Len(batch) : Unparseable(batch[i]) => ReportsOf(i) = 0

\* C16, amended: a record with an unparseable time_created is no processing
\* error; its days_since_created is 0 and its report is in the output
\* exactly when min_days is at most 0.
C16_MalformedTimestampDefaulted ==
    (proc_out # <<>> /\ proc_out[1].how = "returned") =>
        \A i \in 1..Len(batch) :
            Unparseable(batch[i]) =>
                /\ ReportsOf(i) = IF min_days <= 0 THEN 1 ELSE 0
                /\ \A j \in 1..Len(proc_out[1].results) :
                      proc_out[1].results[j].instance_id = i =>
                          proc_out[1].results[j].days_since_created = 0

\* a record with an unparseable time_created is reported, after an older one
C16_Witness ==
    /\ proc_out # <<>>
    /\ proc_out[1].how = "returned"
    /\ min_days = 0
    /\ Len(batch) = 2
    /\ Unparseable(batch[1])
    /\ ReportIds(proc_out[1].results) = <<2, 1>>

\* list_stopped_instances returned and reported nothing
ReturnedNoReport == run_return # <<>> /\ run_return[1] = <<>>

\* C12: a run whose scan found no stopped instance, or whose records all
\* fall under min_days, exits with code 0 and not through a handler of main.
C12_EmptyResultExitsZero ==
    (run_pc = "exited" /\ ReturnedNoReport) =>
        /\ exit_code = 0
        /\ run_exc = "none"

\* regions and compartments are resolved and one of the lists is empty
EmptyUniverse ==
    /\ run_pc \notin {"idle", "regions", "compartments"}
    /\ (regions = <<>> \/ compartment_ids = <<>>)

\* what C13 says of a run with an empty scan universe: no task, no listing
\* call, no exception out of list_stopped_instances, no processing, no
\* report file, and the three values of the nothing-found path returned
EmptyUniverseAsClaimed ==
    /\ tasks = <<>>
    /\ run_listing_calls = <<>>
    /\ run_pc # "failed"
    /\ run_exc # "ValueError@330"
    /\ proc_out = <<>>
    /\ run_files = {}
    /\ run_return # <<>> => run_return = << <<>>, "", "" >>

\* C13 as stated: for every worker limit
C13_EmptyUniverseAnyLimit == EmptyUniverse => EmptyUniverseAsClaimed

\* C13, amended: when the worker limit is at least 1
C13_EmptyUniverse ==
    (EmptyUniverse /\ max_workers >= 1) => EmptyUniverseAsClaimed

\* list_stopped_instances returned from a scan of no region
C13_Witness ==
    /\ EmptyUniverse
    /\ max_workers >= 1
    /\ run_pc = "returned"
    /\ stopped_instances_found = 0

\* C17: when the identity capability raised while the regions were resolved,
\* get_subscribed_regions returned [us-ashburn-1, us-phoenix-1], the scan is
\* handed these two regions, and the cells it lists are those of the two
\* regions.
C17_FallbackRegionsScanned ==
    region_errors # <<>> =>
        /\ \A n \in 1..Len(region_returns) :
              region_returns[n].value = <<"us-ashburn-1", "us-phoenix-1">>
        /\ run_pc \notin {"idle", "regions"} =>
              regions = <<"us-ashburn-1", "us-phoenix-1">>
        /\ run_pc \in {"discovered", "processed", "returned"} =>
              {run_listing_calls[k][1] : k \in 1..Len(run_listing_calls)}
                  = {"us-ashburn-1", "us-phoenix-1"}

\* list_region_subscriptions raised and the scan has listed the cells of
\* both regions
C17_Witness ==
    /\ region_errors = <<"list_region_subscriptions">>
    /\ run_pc = "discovered"
    /\ Len(run_listing_calls) >= 2

\* C23: when _setup_oci_config fails (no configuration file, a configuration
\* that does not validate, or no tenancy id in the arguments or the file),
\* the run has ended with exit code 1, no identity call was issued (regions
\* and compartments were never resolved), no scan task was submitted and no
\* listing call was made.
C23_SetupFailureIsFatal ==
    run_setup \notin {"none", "ok"} =>
        /\ run_pc = "exited"
        /\ exit_code # 0
        /\ exit_code # -1
        /\ identity_calls = 0
        /\ region_returns = <<>>
        /\ comp_returns = <<>>
        /\ tasks = <<>>
        /\ run_listing_calls = <<>>
        /\ api_calls_made = 0

\* a run whose configuration file had no tenancy entry, started without
\* --tenancy-id, has ended
C23_Witness ==
    /\ run_setup = "NoTenancy"
    /\ run_pc = "exited"
    /\ exit_code = 1

\* C24: a run started with --skip-regions that has ended constructed its
\* lister and got to the scan, and no listing call was issued for a region
\* of the exclusion list.
C24_SkipRegionsScans ==
    (run_skip # <<>> /\ run_pc = "exited") =>
        /\ run_setup = "ok"
        /\ run_exc # "UnboundLocalError@910"
        /\ \A k \in 1..Len(run_listing_calls) :
              \A i \in 1..Len(run_skip) : run_listing_calls[k][1] # run_skip[i]

\* the instant a time_created value denotes: its wall-clock reading moved
\* by the offset it carries
TrueInstant(tc) == tc.tick - OffsetTicks(tc.suffix)

\* the value is None or '', or no ISO timestamp that the function can read
AgeUnreadable(tc) ==
    \/ tc.kind \in {"empty", "garbage"}
    \/ tc.kind = "str" /\ ~ParseCreated(tc).ok

\* C21: calculate_days_since_created returns an integer >= 0, for every
\* input; it returns 0 for an empty or unparseable input and for a creation
\* instant after the current instant.
C21_AgeNeverNegative ==
    age_out # <<>> =>
        /\ age_out[1] \in Nat
        /\ AgeUnreadable(age_in[1]) => age_out[1] = 0
        /\ (~AgeUnreadable(age_in[1]) /\ TrueInstant(age_in[1]) > NowTick)
               => age_out[1] = 0

\* the function was applied to a datetime one day in the future
C21_Witness ==
    /\ age_out = <<0>>
    /\ age_in = <<TimeValue("datetime", NowTick + 2, FALSE, "+00:00")>>

\* a record of the aggregate as process_instances takes it: the scan leaves
\* every attribute but the region as the listing call answered it
AsListed(rec) ==
    [id |-> rec.id, missing |-> {}, time_created |-> EmptyTime,
     compartment_id |-> rec.compartment_id, region |-> rec.region]

\* the reports process_instances makes of the aggregate as it stands
ReportsOfAggregate ==
    process_instances(compartment_cache,
                      [i \in 1..Len(all_instances) |-> AsListed(all_instances[i])],
                      0).results

\* C22: every record of the aggregate carries the region of the cell whose
\* listing call answered it (the id of a record names that cell), whatever
\* the order in which the tasks complete and are collected, and every report
\* made of the aggregate carries that region too.
C22_RegionOfCell ==
    /\ \A i \in 1..Len(all_instances) :
          all_instances[i].region = all_instances[i].id[1]
    /\ \A i \in 1..Len(ReportsOfAggregate) :
          ReportsOfAggregate[i].region = ReportsOfAggregate[i].instance_id[1]

\* the scan returned an aggregate with records of two regions, those of
\* us-phoenix-1 collected first
C22_Witness ==
    /\ phase = "returned"
    /\ Len(all_instances) = 4
    /\ all_instances[1].region = "us-phoenix-1"
    /\ all_instances[4].region = "us-ashburn-1"
    /\ regions = <<"us-ashburn-1", "us-phoenix-1">>

\* the ages a bucket stands for, by its name
AgeRange(label) ==
    CASE label = "0-29 days" -> 0..29
      [] label = "30-89 days" -> 30..89
      [] label = "90-179 days" -> 90..179
      [] label = "180-364 days" -> 180..364
      [] label = "365+ days" -> {d \in AgesTried : d >= 365}

\* C25: for a non-empty sequence of reports, the count of each of the five
\* buckets is the number of reports whose days_since_created lies in the
\* range the bucket is named after, every report lies in exactly one of the
\* ranges, and the five counts sum to the number of reports.
C25_HistogramPartition ==
    hist_out # <<>> =>
        LET results == hist_in[1]
            counts == hist_out[1]
        IN /\ DOMAIN counts = AgeLabels
           /\ \A label \in AgeLabels :
                 counts[label] =
                     Cardinality({i \in 1..Len(results) :
                         results[i].days_since_created \in AgeRange(label)})
           /\ \A i \in 1..Len(results) :
                 Cardinality({label \in AgeLabels :
                     results[i].days_since_created \in AgeRange(label)}) = 1
           /\ counts["0-29 days"] + counts["30-89 days"]
                  + counts["90-179 days"] + counts["180-364 days"]
                  + counts["365+ days"] = Len(results)

\* the histogram of three reports aged 29, 30 and 365 days was computed
C25_Witness ==
    /\ hist_in = << <<[days_since_created |-> 29],
                      [days_since_created |-> 30],
                      [days_since_created |-> 365]>> >>
    /\ hist_out # <<>>
    /\ hist_out[1]["0-29 days"] = 1
    /\ hist_out[1]["30-89 days"] = 1
    /\ hist_out[1]["365+ days"] = 1

\* the rows of a sequence of reports
Rows(reports) == {reports[i] : i \in 1..Len(reports)}

\* the reports are in descending order of age
OldestFirst(reports) ==
    \A i, j \in 1..Len(reports) :
        i < j => reports[i].days_since_created >= reports[j].days_since_created

\* C27 as stated: for the same answers, the sequence of reports of scan and
\* process_instances is the same for every order in which the tasks complete.
C27_SameSequenceAnyOrder ==
    order_out # <<>> => order_out[1] = order_out[2]

\* C27: for the same answers and every two completion orders, the reports
\* are the same rows, as many of them, oldest first in both; rows of
\* different age are therefore in the same relative order, and only rows of
\* equal age can change places.
C27_SameRowsAnyOrder ==
    order_out # <<>> =>
        /\ Rows(order_out[1]) = Rows(order_out[2])
        /\ Len(order_out[1]) = Len(order_out[2])
        /\ Len(order_out[1]) = Cardinality(Rows(order_out[1]))
        /\ OldestFirst(order_out[1])
        /\ OldestFirst(order_out[2])
        /\ \A i \in 1..Len(order_out[1]) :
              order_out[1][i].days_since_created
                  = order_out[2][i].days_since_created

\* two runs over answers with instances of both ages in both cells gave the
\* same four rows in two different sequences
C27_Witness ==
    /\ order_out # <<>>
    /\ Len(order_out[1]) = 4
    /\ order_out[1] # order_out[2]
    /\ order_out[1][1].region # order_out[2][1].region

\* the regions and the compartments of the run have been resolved: the
\* regions were given or get_subscribed_regions returned them, and
\* get_all_compartments returned the compartments
Resolved ==
    /\ user_regions # <<>> \/ region_returns # <<>>
    /\ user_regions # <<>> => regions = user_regions
    /\ user_regions = <<>> =>
          regions = region_returns[Len(region_returns)].value
    /\ comp_returns # <<>>
    /\ compartment_ids = KeyList(comp_returns[Len(comp_returns)].value)

\* C30: in a run the stages happen in the order resolve, scan, process,
\* render.  A scan task exists only when regions and compartments are
\* resolved, and the tasks are the cells of what was resolved;
\* process_instances has been called only when the scan has listed every
\* cell and returned a non-empty aggregate; a report file is written only
\* when process_instances has returned at least one report, each of them at
\* least min_days old.
C30_StageOrder ==
    /\ run_pc \in {"idle", "regions", "compartments", "discover"} =>
          tasks = <<>> /\ run_listing_calls = <<>> /\ proc_out = <<>>
              /\ run_files = {}
    /\ (tasks # <<>> \/ run_listing_calls # <<>>) =>
          Resolved /\ tasks = BuildTasks(regions, compartment_ids)
    /\ run_pc = "discovered" => proc_out = <<>> /\ run_files = {}
    /\ proc_out # <<>> =>
          /\ Resolved
          /\ run_listing_calls = BuildTasks(regions, compartment_ids)
          /\ batch # <<>>
    /\ run_pc = "processed" => run_files = {}
    /\ run_files # {} =>
          /\ proc_out # <<>>
          /\ proc_out[1].how = "returned"
          /\ proc_out[1].results # <<>>
          /\ \A i \in 1..Len(proc_out[1].results) :
                proc_out[1].results[i].days_since_created >= min_days
          /\ run_return[1] = proc_out[1].results

\* a run with --min-days 3 resolved its regions through the resolver,
\* scanned, processed and wrote both reports
C30_Witness ==
    /\ run_files = {"csv", "html"}
    /\ min_days = 3
    /\ region_returns # <<>>
    /\ Len(run_listing_calls) >= 2
    /\ run_pc = "exited"

\* a step leaves the shared configuration and both caches as they were, and
\* after it every listing call a task has issued went to the region and the
\* compartment of the task's own cell
SharedStateKept ==
    /\ config' = config
    /\ region_cache' = region_cache
    /\ compartment_cache' = compartment_cache
    /\ \A t \in DOMAIN issued' : issued'[t] \subseteq {tasks'[t]}
    /\ \A t \in DOMAIN client' : client'[t] \in {NoRegion, tasks'[t][1]}

\* C28: no step of the scan, of whatever task and in whatever interleaving,
\* changes the shared configuration, the region cache or the compartment
\* cache; each attempt makes its client from its own copy of the
\* configuration, so every listing call of the task of cell (r, c) is issued
\* against region r and compartment c.
C28_TasksKeepSharedState == [][SharedStateKept]_vars

\* two tasks of different regions have both issued listing calls, the second
\* of them twice, and the shared configuration still names the region of
\* the profile
C28_Witness ==
    /\ Len(tasks) = 2
    /\ tasks[1][1] # tasks[2][1]
    /\ issued[1] = {tasks[1]}
    /\ issued[2] = {tasks[2]}
    /\ calls[2] = 2
    /\ pc[1] = "call"
    /\ config = ProfileConfig

RECURSIVE DelayAfter(_)
\* the delay of a task that has slept n times: 5, 10, 20, ...
DelayAfter(n) == IF n = 0 THEN 5 ELSE 2 * DelayAfter(n - 1)

\* the retry state of task t is what its own failures made it
OwnRetryState(t) ==
    /\ \A k \in 1..Len(slept[t]) : slept[t][k] = DelayAfter(k - 1)
    /\ retry_delay[t] = DelayAfter(Len(slept[t]))
    /\ attempt[t] = Len(slept[t]) - (IF pc[t] = "sleep" THEN 1 ELSE 0)
    /\ Len(slept[t]) <= Len(errors[t])
    /\ Len(slept[t]) <= max_retries - 1

\* a task that a worker runs can take its next step, whatever the other
\* tasks are doing
RunningTaskFree(t) ==
    /\ pc[t] = "incr" => ENABLED Store(t)
    /\ pc[t] = "call" => ENABLED (\E n \in InstCounts : CallReturns(t, n))
    /\ pc[t] = "call" => ENABLED (\E e \in ErrorTexts : CallRaises(t, e))
    /\ pc[t] = "sleep" => ENABLED Wake(t)

\* task t is the next of the queue and every worker of the pool is busy
\* with another task, which is in its listing call or in its retry sleep
QueuedBehindOthers(t) ==
    /\ phase = "collecting"
    /\ pc[t] = "queued"
    /\ \A u \in TaskIds : u < t => pc[u] # "queued"
    /\ ~PoolHasFreeWorker(NumRunning, max_workers)
    /\ \A u \in TaskIds : Running(u) => pc[u] \in {"call", "sleep"}

\* C29 as stated: the retry state of every task is its own, so every
\* backoff starts at 5 seconds, and no task waits for another task's sleep
\* or call.
C29_NoTaskWaits ==
    \A t \in TaskIds :
        /\ OwnRetryState(t)
        /\ RunningTaskFree(t)
        /\ ~QueuedBehindOthers(t)

\* C29: the attempt number and the delay of every task are what its own
\* failures made them (the k-th sleep of a task lasts 5 * 2^(k-1) seconds,
\* whatever the other tasks did), and a task that a worker has started is
\* never kept from its next step by another task's sleep or call.
C29_RetryStatePrivate ==
    \A t \in TaskIds :
        /\ OwnRetryState(t)
        /\ RunningTaskFree(t)

\* task 1 has slept twice (5 and 10 seconds) and is in its third call while
\* task 2, started later, is in its first sleep of 5 seconds
C29_Witness ==
    /\ Len(tasks) = 2
    /\ slept[1] = <<5, 10>>
    /\ pc[1] = "call"
    /\ slept[2] = <<5>>
    /\ pc[2] = "sleep"
    /\ retry_delay[2] = 10

\* every submitted task has finished
AllTasksDone == \A t \in TaskIds : pc[t] = "done"

\* C26: the listing attempts of a scan number at most 3 for each cell of
\* regions x compartments; and once the tasks are submitted, under fair
\* scheduling every one of them finishes and discover_stopped_instances
\* returns -- or, when the user interrupts it, raises KeyboardInterrupt after
\* the tasks have finished.
C26_ScanTerminates ==
    /\ [](TotalCalls <= 3 * Len(regions) * Len(compartment_ids))
    /\ (phase = "collecting") ~>
           (AllTasksDone /\ (phase = "returned" \/ raised = "KeyboardInterrupt"))

\* the scan of two cells returned after six listing attempts, three for
\* each cell
C26_Witness ==
    /\ phase = "returned"
    /\ Len(regions) * Len(compartment_ids) = 2
    /\ TotalCalls = 6

\* get_all_compartments failed as a whole in call n: the construction of
\* the identity client or list_compartments raised
FailedAsWhole(n) == comp_returns[n].how \in {"list_fails", "client_fails"}

\* C31: a call of get_all_compartments in which the client construction or
\* the listing raised has returned (it raised nothing) the mapping with the
\* one entry tenancy id -> "Root Compartment", whatever ids it was given, and
\* has left that mapping in the cache; the run goes on, and the scan that
\* follows lists one cell per region, that of the tenancy root.
C31_RootOnlyFallback ==
    \A n \in 1..Len(comp_returns) :
        FailedAsWhole(n) =>
            /\ comp_returns[n].value = << <<"ocid1.tenancy.t", "Root Compartment">> >>
            /\ compartment_cache = comp_returns[n].value
            /\ run_pc \notin {"idle", "regions", "compartments"} =>
                  compartment_ids = <<"ocid1.tenancy.t">>
            /\ run_pc \in {"failed", "exited"} =>
                  run_exc \in {"ValueError@330", "ValueError@934",
                               "AttributeError@380", "none"}
            /\ (max_workers >= 1
                  /\ run_pc \notin {"idle", "regions", "compartments",
                                    "discover"}) =>
                  run_listing_calls =
                      [k \in 1..Len(regions) |-> <<regions[k], "ocid1.tenancy.t">>]

\* a run given --compartments whose identity client could not be
\* constructed has scanned the tenancy root in the two fallback regions
C31_Witness ==
    /\ Len(comp_returns) = 1
    /\ comp_returns[1].how = "client_fails"
    /\ user_compartments # <<>>
    /\ run_pc = "discovered"
    /\ run_listing_calls = << <<"us-ashburn-1", "ocid1.tenancy.t">>,
                              <<"us-phoenix-1", "ocid1.tenancy.t">> >>
====
